---- MODULE Spec2Model ----
(***************************************************************************)
(* Model of the analog-to-relative-motion handler of input-remapper        *)
(* (inputremapper/injection/mapping_handlers/abs_to_rel_handler.py):       *)
(* AbsToRelHandler.notify / reset / _write and the two emission loops      *)
(* _run_normal and _run_wheel, run as asyncio tasks on one event loop.     *)
(*                                                                         *)
(* Python floats are modelled as a binary floating-point format with       *)
(* Precision significant bits on a grid of 2^-FracBits (IEEE double has    *)
(* 53 bits); a number x is held as the integer x * Scale.  Addition and    *)
(* multiplication round to nearest, ties to even, as the hardware does;    *)
(* math.fmod and int() are exact, as in Python.                            *)
(***************************************************************************)
EXTENDS Integers, Sequences, FiniteSets, TLC

(* ---- bounds of the model ---- *)
Precision == 8            \* significant bits of a float (53 in the program)
FracBits == 15            \* the float grid is 2^-FracBits
IntBits == 8              \* width of the sink's signed value field (32 in evdev)
MaxTasks == 2             \* emission-loop tasks that may exist at once
MaxTicks == 12            \* ticks followed in the constant-rate runs
TickPeriod == 1           \* the period of a loop, 1 / rate, in clock units
MaxCombination == 3       \* input events of a trigger combination
MaxModeSteps == 5         \* loop steps followed in the runs over every output code
MaxMappings == 2          \* mappings of the preset in the editor
MaxArrivals == 4          \* events pushed to the device of the injector
DebounceTime == 2         \* the timeout of debounce(20), in units of time.sleep
MaxRuns == 2              \* runs of a debounced method
MaxBurst == 2             \* calls of a debounced method between two runs

(* ---- evdev.ecodes ---- *)
EV_KEY == 1
EV_REL == 2
EV_ABS == 3
REL_HWHEEL == 6
REL_WHEEL == 8
REL_WHEEL_HI_RES == 11
REL_HWHEEL_HI_RES == 12
ABS_HAT0X == 16
KEY_A == 30
KEY_C == 46

(* ---- float arithmetic ---- *)
Abs(x) == IF x < 0 THEN -x ELSE x

Sign(x) == IF x < 0 THEN -1 ELSE IF x > 0 THEN 1 ELSE 0

Pow2(n) == IF n <= 0 THEN 1 ELSE 2 ^ n

RECURSIVE BitLen(_)
BitLen(n) == IF n <= 0 THEN 0 ELSE 1 + BitLen(n \div 2)

Max(a, b) == IF a >= b THEN a ELSE b

Scale == Pow2(FracBits)

\* m / q rounded to the nearest integer, ties to the even one (m >= 0, q > 0)
RoundHalfEven(m, q) ==
    LET lo == m \div q
        r2 == 2 * (m % q)
    IN  IF r2 < q THEN lo
        ELSE IF r2 > q THEN lo + 1
        ELSE IF lo % 2 = 0 THEN lo ELSE lo + 1

\* the float nearest to the grid value x: at most Precision significant bits
Round(x) ==
    LET q == Pow2(BitLen(Abs(x)) - Precision)
    IN  Sign(x) * RoundHalfEven(Abs(x), q) * q

\* a = Mant(a) * 2^Expo(a) with Mant(a) odd (a # 0)
RECURSIVE Expo(_)
Expo(a) == IF a = 0 \/ a % 2 # 0 THEN 0 ELSE 1 + Expo(a \div 2)

Mant(a) == a \div Pow2(Expo(a))

\* Python float +
FAdd(a, b) == Round(a + b)

\* x / 2^d rounded to a float (x >= 0)
RoundScaled(x, d) ==
    IF d <= 0 THEN Round(x * Pow2(-d))
    ELSE LET q == Pow2(Max(d, BitLen(x) - Precision))
         IN  RoundHalfEven(x, q) * (q \div Pow2(d))

\* Python float *: the exact product, rounded once
FMul(a, b) ==
    Sign(a) * Sign(b)
      * RoundScaled(Abs(Mant(a) * Mant(b)), FracBits - Expo(a) - Expo(b))

\* Python float / (a, b > 0): the quotient to Precision + 2 bits and a sticky
\* bit, rounded once
FDiv(a, b) ==
    LET k == Precision + 1 + BitLen(Mant(b))
        n == Mant(a) * Pow2(k)
        x == 2 * (n \div Mant(b)) + (IF n % Mant(b) = 0 THEN 0 ELSE 1)
    IN  RoundScaled(x, k + 1 - (Expo(a) - Expo(b) + FracBits))

\* math.fmod(x, 1): exact, with the sign of x
Fmod1(x) == Sign(x) * (Abs(x) % Scale)

\* mutant: the value rounded down
TruncFloors(x) == x \div Scale

\* int(x): truncation toward zero
Trunc(x) == Sign(x) * (Abs(x) \div Scale)

\* the float of the decimal literal num/den
Float(num, den) == Sign(num) * FDiv(Abs(num), den)

(* ---- the handler's configuration: AbsToRelHandler.__init__ ---- *)

\* the input (type, code) of the axis the handler maps
MapAxis == <<EV_ABS, 0>>

\* another axis of the same device
OtherAxis == <<EV_ABS, 1>>

\* the run method bound at construction is _run_wheel
IsWheel(code) ==
    code \in {REL_WHEEL, REL_HWHEEL, REL_WHEEL_HI_RES, REL_HWHEEL_HI_RES}

\* an output code that is no wheel code: the handler runs _run_normal
PointerCode == CHOOSE c \in 0..REL_HWHEEL_HI_RES : ~IsWheel(c)

\* mapping.output_code values handlers are constructed for: all of them in
\* the constant-rate runs; in Spec those whose remainders stay on a small grid
OutputCodes ==
    {PointerCode, REL_WHEEL, REL_HWHEEL, REL_WHEEL_HI_RES, REL_HWHEEL_HI_RES}

SpecCodes == {PointerCode, REL_WHEEL, REL_HWHEEL}

\* mutant: the channel pair chosen by the resolution of the output code
WheelCodesByResolution(code) ==
    IF code \in {REL_WHEEL, REL_HWHEEL}
    THEN <<REL_WHEEL, REL_WHEEL_HI_RES>>
    ELSE <<REL_HWHEEL, REL_HWHEEL_HI_RES>>

\* codes of the two wheel channels
WheelCodes(code) ==
    IF code \in {REL_WHEEL, REL_WHEEL_HI_RES}
    THEN <<REL_WHEEL, REL_WHEEL_HI_RES>>
    ELSE <<REL_HWHEEL, REL_HWHEEL_HI_RES>>

\* mutant: the hi-res weights given as (120, 1)
WheelWeightsHiResInverted(code) ==
    IF code \in {REL_WHEEL, REL_HWHEEL}
    THEN <<Scale, 120 * Scale>>
    ELSE <<120 * Scale, Scale>>

\* weights of the two wheel channels: (1.0, 120.0) or (1 / 120, 1)
WheelWeights(code) ==
    IF code \in {REL_WHEEL, REL_HWHEEL}
    THEN <<Scale, 120 * Scale>>
    ELSE <<Float(1, 120), Scale>>

\* the run method bound by __init__ and its arguments
Bind(code) ==
    [wheel |-> IsWheel(code),
     codes |-> IF IsWheel(code) THEN WheelCodes(code) ELSE <<>>,
     weights |-> IF IsWheel(code) THEN WheelWeights(code) ELSE <<>>]

(* ---- the trigger combination ---- *)

\* the input event of the mapped axis: (type, code, value) with value 0
AxisEvent == <<MapAxis[1], MapAxis[2], 0>>

\* other input events of a combination: they carry a non-zero value
TriggerEvents == {<<OtherAxis[1], OtherAxis[2], 1>>, <<EV_REL, PointerCode, -1>>}

\* combinations a handler is built for: no event twice, the mapped axis among them
Combinations ==
    {c \in UNION {[1..n -> {AxisEvent} \cup TriggerEvents] : n \in 1..MaxCombination} :
        /\ \A i, j \in DOMAIN c : c[i] = c[j] => i = j
        /\ \E i \in DOMAIN c : c[i] = AxisEvent}

\* the axis __init__ finds: (type, code) of the first event with value 0
RECURSIVE FindAxis(_)
FindAxis(combination) ==
    IF combination = <<>> THEN <<>>
    ELSE IF Head(combination)[3] = 0
    THEN <<Head(combination)[1], Head(combination)[2]>>
    ELSE FindAxis(Tail(combination))

\* MappingHandler.__init__: self.input_events = list(combination)
InputEventsOf(combination) == [list |-> combination]

\* EventCombination(events): the tuple of the events of a list
EventCombination(events) == events.list

\* handlers offered to set_sub_handler
SubHandlers == {"key", "macro"}

\* mapping.target_uinput: names of the virtual output devices
Targets == {"mouse", "keyboard + mouse"}

\* a target name the multiplexer has no device for
UnknownTarget == "no such device"

\* constructor arguments of the handlers of Spec
SpecConstructions ==
    {[combination |-> <<AxisEvent>>,
      output_code |-> PointerCode, target_uinput |-> "mouse"],
     [combination |-> <<<<OtherAxis[1], OtherAxis[2], 1>>, AxisEvent>>,
      output_code |-> REL_WHEEL, target_uinput |-> "keyboard + mouse"]}

\* constructor arguments over every output code
Constructions ==
    [combination : Combinations, output_code : 0..REL_HWHEEL_HI_RES,
     target_uinput : Targets]

(* ---- inputs ---- *)

\* a rate that no tick can write: beyond the sink's value range
BigRate == Round((Pow2(IntBits - 1) + 4) * Scale)

\* target rates (transformed * speed) the events of Spec carry
Rates == {0, Float(3, 4), Float(-3, 2), BigRate}

\* the constant rates of the constant-rate runs: tenths and quarters in pointer
\* mode, rates whose hi-res channel stays within the sink's range in wheel mode
RunRates(code) ==
    IF ~IsWheel(code)
    THEN {Float(k, 10) : k \in -30..30} \cup {Float(k, 4) : k \in -12..12}
    ELSE IF code \in {REL_WHEEL, REL_HWHEEL}
    THEN {Float(k, 10) : k \in -10..10} \cup {Float(k, 4) : k \in -4..4}
    ELSE {Float(k, 2) : k \in -80..80}

\* an input event as notify reads it: (type, code), the recenter action, and
\* the rate its value transforms to
Events ==
    [axis : {MapAxis, OtherAxis}, recenter : BOOLEAN, rate : Rates]

\* what `last` keeps of an operation: its name, the task that ran, whether the
\* event was on the mapped axis and carried recenter, the boolean it returned,
\* the mapping it returned and the exception it raised
Op(name, t, ev, ret) ==
    [op |-> name, task |-> t, match |-> ev.axis = MapAxis,
     recenter |-> ev.recenter, ret |-> ret, wraps |-> {}, raised |-> ""]

NoEvent == [axis |-> <<0, 0>>, recenter |-> FALSE, rate |-> 0]

Tasks == 1..MaxTasks

VARIABLES
    outputCode,   \* mapping.output_code
    target,       \* mapping.target_uinput
    run,          \* self._run: the bound run method, its codes and weights
    inputEvents,  \* self.input_events
    value,        \* self._value
    running,      \* self._running
    stop,         \* self._stop
    transform,    \* self._transform is built
    tasks,        \* the _run tasks: pc and the local remainder(s)
    ready,        \* tasks made by ensure_future that have not run yet, oldest first
    passed,       \* triples handed to global_uinputs.write in the last step
    sunk,         \* those of them the sink accepted
    logged,       \* those of them logged by logger.error
    uinputs,      \* the device names they were handed over under
    slept,        \* the argument of asyncio.sleep in the last step, or NoSleep
    last,         \* the last operation: its name, task, event and return value
    sinceRecenter, \* a recenter was delivered and no non-zero rate since
    sinceZero,     \* a zero rate was delivered and no non-zero rate since
    sinceReset,    \* reset() was called and no non-zero rate since
    stopSeen,     \* loops asleep when a stop was requested, not woken since
    lastRate,     \* rate of the last matching event that was transformed
    queries,      \* capability queries made to the source device so far
    nticks,       \* ticks run (constant-rate runs)
    total,        \* sum of the values computed per channel (constant-rate runs)
    leftover,     \* the remainders of the loop that ended last, as it left them
    other,        \* a second handler of the same device, for another axis
    mappings,     \* the active preset: its mappings, oldest first
    active,       \* the active mapping: its place in the preset, 0 for none
    recording,    \* a key-recording session is going on
    accumulator,  \* the events recorded in the session, in press order
    held,         \* (type, code) of the recorded events that are held down
    finished,     \* recording-finished signals since the session started
    answer,       \* what the last step of the editor published or returned
    injectorState, \* data_manager.get_state()
    grabbed,      \* the injector holds the device and reads it
    pipe,         \* events on the device that the injector has not read, oldest first
    arrived,      \* every event pushed so far, with the state it arrived in
    written,      \* the uinput write history
    timers,       \* the pending timeouts of the debounce manager
    calls,        \* how often each debounced method has run
    since,        \* per method: calls and runs since its last run or call
    debounced     \* the last step of the debounce tests

config == <<outputCode, target, run, inputEvents>>
handler == <<config, value, running, stop, transform, tasks, ready>>
output == <<passed, sunk, logged, uinputs, slept>>
history == <<sinceRecenter, sinceZero, sinceReset>>
counters == <<nticks, total, leftover>>
marks == <<stopSeen, lastRate, queries>>
recorder == <<mappings, active, recording, accumulator, held, finished, answer>>
injection == <<injectorState, grabbed, pipe, arrived, written>>
debouncer == <<timers, calls, since, debounced>>
desktop == <<recorder, injection, debouncer>>
engine == <<handler, output, last, history, marks, counters, other>>
vars == <<engine, desktop>>
notRecorder == <<engine, injection, debouncer>>
notInjection == <<engine, recorder, debouncer>>
notDebounce == <<engine, recorder, injection>>

(* ======================================================================= *)
(* The preset editor as tests/integration/test_gui.py drives it: triggers, *)
(* the mappings of the active preset and key recording.  The editor's own  *)
(* code is not part of the sources; what the model takes for it is said at *)
(* each definition.                                                        *)
(* ======================================================================= *)

\* InputEvent.key / InputEvent.abs: an event as the device reports it
InputEvent(type, code, val, origin) ==
    [type |-> type, code |-> code, value |-> val, origin |-> origin]

ev_1 == InputEvent(EV_KEY, KEY_A, 1, "foo_device_2_keyboard")
ev_2 == InputEvent(EV_ABS, ABS_HAT0X, 1, "foo_device_2_gamepad")
ev_3 == InputEvent(EV_KEY, KEY_C, 1, "foo_device_2_keyboard")
ev_4 == InputEvent(EV_ABS, ABS_HAT0X, -1, "foo_device_2_gamepad")

combination_1 == <<ev_1, ev_2, ev_3>>
combination_2 == <<ev_2, ev_1, ev_3>>
\* same as 1, but different D-Pad direction
combination_3 == <<ev_1, ev_4, ev_3>>
combination_4 == <<ev_4, ev_1, ev_3>>
\* same as 1, but the last event is different
combination_5 == <<ev_1, ev_3, ev_2>>
combination_6 == <<ev_3, ev_1, ev_2>>

\* event.modify(value=...)
modify(event, val) == [event EXCEPT !.value = val]

\* (type, code) of an event: what a press and its release have in common
TypeAndCode(event) == <<event.type, event.code>>

Range(s) == {s[i] : i \in DOMAIN s}

\* the orders in which n things can be put
Orderings(n) ==
    {f \in [1..n -> 1..n] : \A i, j \in 1..n : f[i] = f[j] => i = j}

\* InputConfig.from_input_event: the descriptor (type, code, direction) of an
\* event
from_input_event(event) ==
    [type |-> event.type, code |-> event.code, sign |-> Sign(event.value)]

\* mutant: the descriptors are put in the order of their type and code
GetCombinationSorted(combi) ==
    LET c == [i \in 1..Len(combi) |-> from_input_event(combi[i])]
        key(d) == d.type * 10000 + d.code * 4 + d.sign + 1
    IN  CHOOSE s \in {[i \in 1..Len(c) |-> c[f[i]]] : f \in Orderings(Len(c))} :
            \A i \in 1..Len(c) - 1 : key(s[i]) <= key(s[i + 1])

\* mutant: the direction of the events is dropped
GetCombinationPositive(combi) ==
    [i \in 1..Len(combi) |-> from_input_event(modify(combi[i], Abs(combi[i].value)))]

\* mutant: the combination is built back to front
GetCombinationReversed(combi) ==
    [i \in 1..Len(combi) |-> from_input_event(combi[Len(combi) + 1 - i])]

\* get_combination of test_combination: the InputCombination of a list of
\* events, in the order of the list
get_combination(combi) ==
    [i \in 1..Len(combi) |-> from_input_event(combi[i])]

\* InputCombination.get_permutations: every order of the descriptors before
\* the last one, each followed by the last one
get_permutations(c) ==
    IF Len(c) <= 2 THEN {c}
    ELSE {[i \in 1..Len(c) |-> IF i = Len(c) THEN c[i] ELSE c[f[i]]] :
            f \in Orderings(Len(c) - 1)}

\* Preset.get_mapping: the place of the mapping stored under one of the
\* permutations of the combination, 0 for None
get_mapping(preset, combination) ==
    LET hits == {i \in 1..Len(preset) :
                    preset[i].combination \in get_permutations(combination)}
    IN  IF combination = <<>> \/ hits = {} THEN 0 ELSE CHOOSE i \in hits : TRUE

\* a mapping as create_mapping makes it: no combination, no output
EmptyMapping == [combination |-> <<>>, output_symbol |-> ""]

\* the symbols the tests type into the code editor: a new one for each mapping
Symbols == <<"a", "b", "c", "d", "e">>

\* the message CombinationRecorded of the recorder: the descriptors of the
\* recorded events, in press order
CombinationRecorded(events) ==
    [i \in 1..Len(events) |-> from_input_event(events[i])]

\* mutant: only the very same sequence counts as taken
UpdateCombinationExactMatch(preset, i, c) ==
    IF \E j \in 1..Len(preset) : j # i /\ preset[j].combination = c
    THEN preset
    ELSE [preset EXCEPT ![i].combination = c]

\* the preset after the controller tried to give mapping i the combination c:
\* refused (KeyError) when another mapping is stored under a permutation of c
update_combination(preset, i, c) ==
    IF \E j \in 1..Len(preset) :
          j # i /\ preset[j].combination \in get_permutations(c)
    THEN preset
    ELSE [preset EXCEPT ![i].combination = c]

\* the controller on a CombinationRecorded message: it listens only while a
\* recording session is going on
on_combination_recorded(preset, i, c, listening) ==
    IF listening /\ i # 0 THEN update_combination(preset, i, c) ELSE preset

\* what `answer` keeps of a step of the editor
Answer(op, published, found) ==
    [op |-> op, combination |-> published, found |-> found]

\* nothing published, nothing looked up
NoAnswer == Answer("", <<>>, 0)

RecorderInit ==
    /\ mappings = <<>>
    /\ active = 0
    /\ recording = FALSE
    /\ accumulator = <<>>
    /\ held = {}
    /\ finished = 0
    /\ answer = NoAnswer

InjectionInit ==
    /\ injectorState = "STOPPED"
    /\ grabbed = FALSE
    /\ pipe = <<>>
    /\ arrived = <<>>
    /\ written = <<>>

\* the debounced methods of the tests: foo of an object of class A and foo
\* of an object of class B
Methods == {[object |-> "a", method |-> "foo"], [object |-> "b", method |-> "foo"]}

\* mutant: pending calls are told apart by the name of the method
TrackByName(m) == <<"", m.method>>

\* what a pending call is kept under: the object and the method
Track(m) == <<m.object, m.method>>

\* no timeout is pending
NoTimer == [left |-> -1, callee |-> [object |-> "", method |-> ""]]

\* what `since` keeps for a method: its calls since the last run or
\* cancellation was followed by a call, the runs since its last call and what
\* ran it, and whether its pending call was cancelled
Fresh == [invoked |-> 0, runs |-> 0, by |-> "", cancelled |-> FALSE]

\* the calls of m that wait for one run, the next call included
Burst(m) ==
    IF since[m].runs > 0 \/ since[m].cancelled THEN 1 ELSE since[m].invoked + 1

DebounceInit ==
    /\ timers = [k \in {Track(m) : m \in Methods} |-> NoTimer]
    /\ calls = [m \in Methods |-> 0]
    /\ since = [m \in Methods |-> Fresh]
    /\ debounced = "init"

DesktopInit == RecorderInit /\ InjectionInit /\ DebounceInit

\* controller.create_mapping: a new empty mapping becomes the active one; it
\* does nothing when the preset has an empty mapping already
create_mapping ==
    /\ ~recording
    /\ IF \E i \in 1..Len(mappings) : mappings[i].combination = <<>>
       THEN UNCHANGED <<mappings, active>>
       ELSE /\ Len(mappings) < MaxMappings
            /\ mappings' = Append(mappings, EmptyMapping)
            /\ active' = Len(mappings) + 1
    /\ answer' = NoAnswer
    /\ UNCHANGED <<recording, accumulator, held, finished, notRecorder>>

\* controller.load_mapping: another mapping of the preset becomes active
load_mapping(i) ==
    /\ ~recording
    /\ i \in 1..Len(mappings)
    /\ active' = i
    /\ answer' = NoAnswer
    /\ UNCHANGED <<mappings, recording, accumulator, held, finished, notRecorder>>

\* controller.start_key_recording
start_key_recording ==
    /\ ~recording
    /\ active # 0
    /\ recording' = TRUE
    /\ accumulator' = <<>>
    /\ held' = {}
    /\ finished' = 0
    /\ answer' = NoAnswer
    /\ UNCHANGED <<mappings, active, notRecorder>>

\* the recorder on a press: an event it has not recorded yet is appended and
\* the combination so far is published; the controller stores it in the active
\* mapping unless it is taken
RecordPress(ev) ==
    /\ recording
    /\ ev.value # 0
    /\ \A k \in 1..Len(accumulator) :
          TypeAndCode(accumulator[k]) = TypeAndCode(ev) => accumulator[k] = ev
    /\ held' = held \cup {TypeAndCode(ev)}
    /\ IF ev \in Range(accumulator)
       THEN /\ answer' = NoAnswer
            /\ UNCHANGED <<accumulator, mappings>>
       ELSE /\ Len(accumulator) < MaxCombination
            /\ LET c == CombinationRecorded(Append(accumulator, ev))
               IN  /\ accumulator' = Append(accumulator, ev)
                   /\ mappings' = on_combination_recorded(mappings, active, c, recording)
                   /\ answer' = Answer("push_event", c, active)
    /\ UNCHANGED <<active, recording, finished, notRecorder>>

\* mutant: the session ends with the first release
RecordReleaseEndsSession(ev) ==
    /\ recording
    /\ ev.value = 0
    /\ IF TypeAndCode(ev) \notin held
       THEN UNCHANGED <<recording, accumulator, held, finished>>
       ELSE /\ held' = held \ {TypeAndCode(ev)}
            /\ recording' = FALSE
            /\ accumulator' = <<>>
            /\ finished' = finished + 1
    /\ answer' = NoAnswer
    /\ UNCHANGED <<mappings, active, notRecorder>>

\* the recorder on a release: it publishes nothing; the release of the last
\* held event ends the session with the signal recording-finished
RecordRelease(ev) ==
    /\ recording
    /\ ev.value = 0
    /\ IF TypeAndCode(ev) \notin held
       THEN UNCHANGED <<recording, accumulator, held, finished>>
       ELSE LET rest == held \ {TypeAndCode(ev)}
            IN  /\ held' = rest
                /\ IF rest = {}
                   THEN /\ recording' = FALSE
                        /\ accumulator' = <<>>
                        /\ finished' = finished + 1
                   ELSE UNCHANGED <<recording, accumulator, finished>>
    /\ answer' = NoAnswer
    /\ UNCHANGED <<mappings, active, notRecorder>>

\* an event while no session is going on: the recorder is not listening
Unrecorded(ev) ==
    /\ ~recording
    /\ answer' = NoAnswer
    /\ answer' # answer
    /\ UNCHANGED <<mappings, active, recording, accumulator, held, finished, notRecorder>>

\* push_event(fixture, event) of the tests
push_event(ev) ==
    \/ RecordPress(ev)
    \/ RecordRelease(ev)
    \/ Unrecorded(ev)

\* the events the tests push: the presses and their releases
DeviceEvents ==
    {ev_1, ev_2, ev_3, ev_4} \cup {modify(ev, 0) : ev \in {ev_1, ev_2, ev_3, ev_4}}

\* code_editor.get_buffer().set_text(symbol): the output of the active mapping
set_text(symbol) ==
    /\ ~recording
    /\ active # 0
    /\ mappings[active].output_symbol # symbol
    /\ mappings' = [mappings EXCEPT ![active].output_symbol = symbol]
    /\ answer' = NoAnswer
    /\ UNCHANGED <<active, recording, accumulator, held, finished, notRecorder>>

\* message_broker.publish(CombinationRecorded(...)) by the test itself, after
\* the session
publish(c) ==
    /\ ~recording
    /\ mappings' = on_combination_recorded(mappings, active, c, recording)
    /\ answer' = Answer("publish", c, active)
    /\ UNCHANGED <<active, recording, accumulator, held, finished, notRecorder>>

\* the combinations the test publishes on its own
Published == {<<[type |-> EV_KEY, code |-> 35, sign |-> 1]>>}

\* the combinations the tests look up
Lookups ==
    {combination_1, combination_2, combination_3, combination_4,
     combination_5, combination_6}

\* active_preset.get_mapping(get_combination(combi)) of the tests
GetMapping(combi) ==
    /\ ~recording
    /\ answer' = Answer("get_mapping", get_combination(combi),
                        get_mapping(mappings, get_combination(combi)))
    /\ UNCHANGED <<mappings, active, recording, accumulator, held, finished, notRecorder>>

FreeTask == [pc |-> "free", rem |-> <<0, 0>>]

Live == {t \in Tasks : tasks[t].pc # "free"}

\* the loops suspended in asyncio.sleep
Sleeping == {t \in Tasks : tasks[t].pc = "sleeping"}

(* ---- the output multiplexer ---- *)

\* global_uinputs.write raises OverflowError: the value does not fit the
\* sink's signed value field
UInputOverflows(v) == v < -Pow2(IntBits - 1) \/ v > Pow2(IntBits - 1) - 1

\* global_uinputs.write finds no device of that name: it fails loudly, with an
\* exception that is no OverflowError
UInputUnknown(name) == name \notin Targets

NoWrite ==
    [passed |-> <<>>, names |-> <<>>, sunk |-> <<>>, logged |-> <<>>,
     raised |-> FALSE]

\* mutant: a zero value is written like any other
WriteZeroToo(type, code, v) ==
    LET ev == <<type, code, v>>
    IN  IF UInputOverflows(v)
        THEN [passed |-> <<ev>>, names |-> <<target>>, sunk |-> <<>>,
              logged |-> <<ev>>, raised |-> FALSE]
        ELSE [passed |-> <<ev>>, names |-> <<target>>, sunk |-> <<ev>>,
              logged |-> <<>>, raised |-> FALSE]

\* mutant: OverflowError is not caught and ends the loop
WriteUncaught(type, code, v) ==
    LET ev == <<type, code, v>>
    IN  IF v = 0 THEN NoWrite
        ELSE IF UInputOverflows(v)
        THEN [passed |-> <<ev>>, names |-> <<target>>, sunk |-> <<>>,
              logged |-> <<>>, raised |-> TRUE]
        ELSE [passed |-> <<ev>>, names |-> <<target>>, sunk |-> <<ev>>,
              logged |-> <<>>, raised |-> FALSE]

(* ---- AbsToRelHandler._write ---- *)
Write(type, code, v) ==
    LET ev == <<type, code, v>>
    IN  IF v = 0 THEN NoWrite
        ELSE IF UInputUnknown(target)
        THEN [passed |-> <<ev>>, names |-> <<target>>, sunk |-> <<>>,
              logged |-> <<>>, raised |-> TRUE]
        ELSE IF UInputOverflows(v)
        THEN [passed |-> <<ev>>, names |-> <<target>>, sunk |-> <<>>,
              logged |-> <<ev>>, raised |-> FALSE]
        ELSE [passed |-> <<ev>>, names |-> <<target>>, sunk |-> <<ev>>,
              logged |-> <<>>, raised |-> FALSE]

\* two writes in a row; the second does not happen when the first raised
ThenWrite(w1, w2) ==
    IF w1.raised THEN w1
    ELSE [passed |-> w1.passed \o w2.passed, names |-> w1.names \o w2.names,
          sunk |-> w1.sunk \o w2.sunk, logged |-> w1.logged \o w2.logged,
          raised |-> w2.raised]

\* mutant: float_value % 1, Python's modulo with the sign of the divisor
RemainderFloorMod(float_value) == float_value % Scale

\* the remainder kept by a tick: math.fmod(float_value, 1)
Remainder(float_value) == Fmod1(float_value)

\* mutant: the pointer loop writes the vertical wheel code
TickNormalWheelCode(v, rem, code) ==
    LET float_value == FAdd(v, rem[1])
        val == Trunc(float_value)
    IN  [rem |-> <<Remainder(float_value), rem[2]>>,
         vals |-> <<val, 0>>,
         w |-> Write(EV_REL, REL_WHEEL, val)]

(* ---- one pass of the loop body of _run_normal ---- *)
TickNormal(v, rem, code) ==
    LET float_value == FAdd(v, rem[1])
        val == Trunc(float_value)
    IN  [rem |-> <<Remainder(float_value), rem[2]>>,
         vals |-> <<val, 0>>,
         w |-> Write(EV_REL, code, val)]

\* mutant: one remainder for both channels, the second channel reading what
\* the first has just kept
TickWheelOneRemainder(v, rem, codes, weights) ==
    LET f1 == FAdd(FMul(v, weights[1]), rem[1])
        f2 == FAdd(FMul(v, weights[2]), Remainder(f1))
        w1 == Write(EV_REL, codes[1], Trunc(f1))
        w2 == Write(EV_REL, codes[2], Trunc(f2))
    IN  [rem |-> <<Remainder(f2), Remainder(f2)>>,
         vals |-> <<Trunc(f1), IF w1.raised THEN 0 ELSE Trunc(f2)>>,
         w |-> ThenWrite(w1, w2)]

(* ---- one pass of the loop body of _run_wheel ---- *)
TickWheel(v, rem, codes, weights) ==
    LET f1 == FAdd(FMul(v, weights[1]), rem[1])
        f2 == FAdd(FMul(v, weights[2]), rem[2])
        w1 == Write(EV_REL, codes[1], Trunc(f1))
        w2 == Write(EV_REL, codes[2], Trunc(f2))
    IN  [rem |-> <<Remainder(f1), IF w1.raised THEN rem[2] ELSE Remainder(f2)>>,
         vals |-> <<Trunc(f1), IF w1.raised THEN 0 ELSE Trunc(f2)>>,
         w |-> ThenWrite(w1, w2)]

\* the run method bound by __init__
Tick(v, rem, code) ==
    IF run.wheel
    THEN TickWheel(v, rem, run.codes, run.weights)
    ELSE TickNormal(v, rem, code)

\* the last step did not call asyncio.sleep
NoSleep == -1

\* time.time() - start at the end of a pass: within the period, or beyond it
TimesTaken == {0, TickPeriod + 1}

\* max(0.0, (1 / rate) - time_taken)
SleepFor(time_taken) == Max(0, TickPeriod - time_taken)

\* task t after a pass of the body: it sleeps, or an exception that _write
\* did not catch ended it there and then
AfterTick(t, tk) ==
    /\ \E time_taken \in TimesTaken :
          slept' = IF tk.w.raised THEN NoSleep ELSE SleepFor(time_taken)
    /\ tasks' = [tasks EXCEPT ![t] =
                    IF tk.w.raised THEN FreeTask
                    ELSE [pc |-> "sleeping", rem |-> tk.rem]]
    /\ passed' = tk.w.passed
    /\ uinputs' = tk.w.names
    /\ sunk' = tk.w.sunk
    /\ logged' = tk.w.logged

\* the second handler as constructed: it maps OtherAxis to another pointer code
OtherHandler ==
    [outputCode |-> CHOOSE c \in 0..REL_HWHEEL_HI_RES :
                        ~IsWheel(c) /\ c # PointerCode,
     target |-> "mouse",
     value |-> 0, running |-> FALSE, stop |-> TRUE, transform |-> FALSE,
     tasks |-> [t \in Tasks |-> FreeTask], ready |-> <<>>]

(* ---- AbsToRelHandler.notify ---- *)
HandlerInit ==
    /\ value = 0
    /\ running = FALSE
    /\ stop = TRUE
    /\ transform = FALSE
    /\ tasks = [t \in Tasks |-> FreeTask]
    /\ ready = <<>>

Quiet ==
    /\ passed = <<>>
    /\ uinputs = <<>>
    /\ sunk = <<>>
    /\ logged = <<>>
    /\ slept = NoSleep

\* AbsToRelHandler(combination, mapping)
Construct(c) ==
    /\ FindAxis(c.combination) = MapAxis
    /\ inputEvents = InputEventsOf(c.combination)
    /\ outputCode = c.output_code
    /\ target = c.target_uinput
    /\ run = Bind(c.output_code)
    /\ HandlerInit

Init ==
    /\ outputCode \in SpecCodes
    /\ \E c \in SpecConstructions : Construct(c)
    /\ Quiet
    /\ last = Op("init", 0, NoEvent, FALSE)
    /\ sinceRecenter = FALSE /\ sinceZero = FALSE /\ sinceReset = FALSE
    /\ stopSeen = {} /\ lastRate = 0 /\ queries = 0
    /\ nticks = 0 /\ total = <<0, 0>> /\ leftover = <<0, 0>>
    /\ other = OtherHandler
    /\ DesktopInit

\* a step that hands nothing to the sink and does not sleep
NoOutput ==
    /\ passed' = <<>>
    /\ uinputs' = <<>>
    /\ sunk' = <<>>
    /\ logged' = <<>>
    /\ slept' = NoSleep

\* asyncio.ensure_future(self._run()): a new task, run after those already ready
EnsureFuture ==
    /\ \E t \in Tasks : tasks[t].pc = "free"
    /\ LET t == CHOOSE x \in Tasks :
                   tasks[x].pc = "free" /\ \A y \in Tasks : tasks[y].pc = "free" => x <= y
       IN  /\ tasks' = [tasks EXCEPT ![t] = [pc |-> "scheduled", rem |-> <<0, 0>>]]
           /\ ready' = Append(ready, t)

\* the transformation is built from the source's capabilities unless one is
\* cached
BuildTransform ==
    /\ transform' = TRUE
    /\ queries' = IF transform THEN queries ELSE queries + 1

\* mutant: the recenter action is looked at before the axis
NotifyOtherRecenterFirst(ev) ==
    /\ ev.axis # MapAxis
    /\ stop' = (stop \/ ev.recenter)
    /\ last' = Op("notify", 0, ev, ev.recenter)
    /\ UNCHANGED <<desktop, config, other, value, running, transform, tasks, ready, history,
                   marks>>

\* the event is not on the mapped axis
NotifyOther(ev) ==
    /\ ev.axis # MapAxis
    /\ last' = Op("notify", 0, ev, FALSE)
    /\ UNCHANGED <<desktop, handler, other, history, marks>>

\* mutant: the stop flag is shared by the handlers of a device
NotifyRecenterStopsAll(ev) ==
    /\ ev.axis = MapAxis
    /\ ev.recenter
    /\ stop' = TRUE
    /\ other' = [other EXCEPT !.stop = TRUE]
    /\ last' = Op("notify", 0, ev, TRUE)
    /\ sinceRecenter' = TRUE
    /\ stopSeen' = stopSeen \cup Sleeping
    /\ UNCHANGED <<desktop, config, value, running, transform, queries, tasks,
                   ready, sinceZero, sinceReset, lastRate>>

\* mutant: a recenter clears the stored target rate
NotifyRecenterZeroesRate(ev) ==
    /\ ev.axis = MapAxis
    /\ ev.recenter
    /\ stop' = TRUE
    /\ value' = 0
    /\ last' = Op("notify", 0, ev, TRUE)
    /\ sinceRecenter' = TRUE
    /\ stopSeen' = stopSeen \cup Sleeping
    /\ UNCHANGED <<desktop, config, other, running, transform, queries, tasks, ready,
                   sinceZero, sinceReset, lastRate>>

\* mutant: a recenter is not reported as handled
NotifyRecenterUnhandled(ev) ==
    /\ ev.axis = MapAxis
    /\ ev.recenter
    /\ stop' = TRUE
    /\ last' = Op("notify", 0, ev, FALSE)
    /\ sinceRecenter' = TRUE
    /\ stopSeen' = stopSeen \cup Sleeping
    /\ UNCHANGED <<desktop, config, other, value, running, transform, queries, tasks, ready,
                   sinceZero, sinceReset, lastRate>>

NotifyRecenter(ev) ==
    /\ ev.axis = MapAxis
    /\ ev.recenter
    /\ stop' = TRUE
    /\ last' = Op("notify", 0, ev, TRUE)
    /\ sinceRecenter' = TRUE
    /\ stopSeen' = stopSeen \cup Sleeping
    /\ UNCHANGED <<desktop, config, other, value, running, transform, queries, tasks, ready,
                   sinceZero, sinceReset, lastRate>>

NotifyZero(ev) ==
    /\ ev.axis = MapAxis
    /\ ~ev.recenter
    /\ ev.rate = 0
    /\ BuildTransform
    /\ value' = ev.rate
    /\ stop' = TRUE
    /\ last' = Op("notify", 0, ev, TRUE)
    /\ sinceZero' = TRUE
    /\ stopSeen' = stopSeen \cup Sleeping
    /\ lastRate' = ev.rate
    /\ UNCHANGED <<desktop, config, other, running, tasks, ready, sinceRecenter, sinceReset>>

\* mutant: a loop is started whether or not one is running
NotifyMoveAlwaysStarts(ev) ==
    /\ ev.axis = MapAxis
    /\ ~ev.recenter
    /\ ev.rate # 0
    /\ BuildTransform
    /\ value' = ev.rate
    /\ EnsureFuture
    /\ last' = Op("notify", 0, ev, TRUE)
    /\ sinceRecenter' = FALSE /\ sinceZero' = FALSE /\ sinceReset' = FALSE
    /\ lastRate' = ev.rate
    /\ UNCHANGED <<desktop, config, other, running, stop, stopSeen>>

NotifyMove(ev) ==
    /\ ev.axis = MapAxis
    /\ ~ev.recenter
    /\ ev.rate # 0
    /\ BuildTransform
    /\ value' = ev.rate
    /\ IF ~running THEN EnsureFuture ELSE UNCHANGED <<tasks, ready>>
    /\ last' = Op("notify", 0, ev, TRUE)
    /\ sinceRecenter' = FALSE /\ sinceZero' = FALSE /\ sinceReset' = FALSE
    /\ lastRate' = ev.rate
    /\ UNCHANGED <<desktop, config, other, running, stop, stopSeen>>

\* mutant: notify writes a first sample itself
NotifyWritesSample(ev) ==
    /\ \/ NotifyOther(ev)
       \/ NotifyRecenter(ev)
       \/ NotifyZero(ev)
       \/ NotifyMove(ev)
    /\ \E w \in {IF ev.axis = MapAxis /\ ~ev.recenter
                  THEN Write(EV_REL, outputCode, Trunc(ev.rate))
                  ELSE NoWrite} :
          /\ passed' = w.passed /\ uinputs' = w.names
          /\ sunk' = w.sunk /\ logged' = w.logged
    /\ slept' = NoSleep
    /\ UNCHANGED counters

notify(ev) ==
    /\ \/ NotifyOther(ev)
       \/ NotifyRecenter(ev)
       \/ NotifyZero(ev)
       \/ NotifyMove(ev)
    /\ NoOutput
    /\ UNCHANGED counters

\* mutant: reset() clears the stored target rate
ResetClearsRate ==
    /\ stop' = TRUE
    /\ value' = 0
    /\ last' = Op("reset", 0, NoEvent, FALSE)
    /\ sinceReset' = TRUE
    /\ stopSeen' = stopSeen \cup Sleeping
    /\ NoOutput
    /\ UNCHANGED <<desktop, config, other, running, transform, queries, tasks, ready,
                   sinceRecenter, sinceZero, lastRate, counters>>

\* mutant: reset() drops the cached transformation
ResetDropsTransform ==
    /\ stop' = TRUE
    /\ transform' = FALSE
    /\ last' = Op("reset", 0, NoEvent, FALSE)
    /\ sinceReset' = TRUE
    /\ stopSeen' = stopSeen \cup Sleeping
    /\ NoOutput
    /\ UNCHANGED <<desktop, config, other, value, running, queries, tasks, ready,
                   sinceRecenter, sinceZero, lastRate, counters>>

(* ---- AbsToRelHandler.reset ---- *)
reset ==
    /\ stop' = TRUE
    /\ last' = Op("reset", 0, NoEvent, FALSE)
    /\ sinceReset' = TRUE
    /\ stopSeen' = stopSeen \cup Sleeping
    /\ NoOutput
    /\ UNCHANGED <<desktop, config, other, value, running, transform, queries, tasks, ready,
                   sinceRecenter, sinceZero, lastRate, counters>>

\* mutant: the loop starts without clearing the stop flag
RunStartKeepsStop(t) ==
    /\ ready # <<>>
    /\ t = Head(ready)
    /\ ready' = Tail(ready)
    /\ running' = TRUE
    /\ \E tk \in {Tick(value, <<0, 0>>, outputCode)} : AfterTick(t, tk)
    /\ last' = Op("start", t, NoEvent, FALSE)
    /\ stopSeen' = stopSeen \ {t}
    /\ UNCHANGED <<desktop, config, other, value, stop, transform, queries, history, lastRate>>

\* mutant: the remainders are kept by the handler across its loops
RunStartCarriesRemainder(t) ==
    /\ ready # <<>>
    /\ t = Head(ready)
    /\ ready' = Tail(ready)
    /\ running' = TRUE
    /\ stop' = FALSE
    /\ \E tk \in {Tick(value, leftover, outputCode)} : AfterTick(t, tk)
    /\ last' = Op("start", t, NoEvent, FALSE)
    /\ stopSeen' = stopSeen \ {t}
    /\ UNCHANGED <<desktop, config, other, value, transform, queries, history, lastRate>>

(* ---- _run_normal / _run_wheel: from the first statement to the first sleep ---- *)
RunStart(t) ==
    /\ ready # <<>>
    /\ t = Head(ready)
    /\ ready' = Tail(ready)
    /\ running' = TRUE
    /\ stop' = FALSE
    /\ \E tk \in {Tick(value, <<0, 0>>, outputCode)} : AfterTick(t, tk)
    /\ last' = Op("start", t, NoEvent, FALSE)
    /\ stopSeen' = stopSeen \ {t}
    /\ UNCHANGED <<desktop, config, other, value, transform, queries, history, lastRate>>

\* mutant: the loop ends without clearing the running flag
RunExitRunningStays(t) ==
    /\ tasks[t].pc = "sleeping"
    /\ stop
    /\ tasks' = [tasks EXCEPT ![t] = FreeTask]
    /\ NoOutput
    /\ last' = Op("exit", t, NoEvent, FALSE)
    /\ stopSeen' = stopSeen \ {t}
    /\ UNCHANGED <<desktop, config, other, value, running, stop, transform, queries, ready, history,
                   lastRate>>

(* ---- _run_normal / _run_wheel: from a wake-up to the next sleep or the end ---- *)
RunExit(t) ==
    /\ tasks[t].pc = "sleeping"
    /\ stop
    /\ running' = FALSE
    /\ tasks' = [tasks EXCEPT ![t] = FreeTask]
    /\ NoOutput
    /\ last' = Op("exit", t, NoEvent, FALSE)
    /\ stopSeen' = stopSeen \ {t}
    /\ UNCHANGED <<desktop, config, other, value, stop, transform, queries, ready, history, lastRate>>

RunTick(t) ==
    /\ tasks[t].pc = "sleeping"
    /\ ~stop
    /\ \E tk \in {Tick(value, tasks[t].rem, outputCode)} : AfterTick(t, tk)
    /\ last' = Op("tick", t, NoEvent, FALSE)
    /\ stopSeen' = stopSeen \ {t}
    /\ UNCHANGED <<desktop, config, other, value, running, stop, transform, queries, ready, history,
                   lastRate>>

\* mutant: a handler with any trigger asks to be wrapped
NeedsWrappingAlways(input_events) == Len(input_events.list) > 0

(* ---- AbsToRelHandler.needs_wrapping ---- *)
NeedsWrapping(input_events) == Len(input_events.list) > 1

(* ---- AbsToRelHandler.wrap_with ---- *)
WrapWith(input_events) ==
    IF NeedsWrapping(input_events)
    THEN {<<EventCombination(input_events), "axisswitch">>}
    ELSE {}

\* a call that only reads the handler: what it returned or raised
Returns(name, ret, wraps, raised) ==
    /\ last' = [Op(name, 0, NoEvent, ret) EXCEPT !.wraps = wraps,
                                                !.raised = raised]
    /\ NoOutput
    /\ UNCHANGED <<desktop, handler, other, history, marks, counters>>

needs_wrapping ==
    Returns("needs_wrapping", NeedsWrapping(inputEvents), {}, "")

wrap_with == Returns("wrap_with", FALSE, WrapWith(inputEvents), "")

\* mutant: the sub-handler is accepted
SetSubHandlerAccepts(h) == Returns("set_sub_handler", FALSE, {}, "")

(* ---- AbsToRelHandler.set_sub_handler: assert False ---- *)
set_sub_handler(h) == Returns("set_sub_handler", FALSE, {}, "AssertionError")

Run(t) ==
    /\ \/ RunStart(t)
       \/ RunExit(t)
       \/ RunTick(t)
    /\ UNCHANGED counters

Next ==
    \/ \E ev \in Events : notify(ev)
    \/ reset
    \/ \E t \in Tasks : Run(t)
    \/ needs_wrapping
    \/ wrap_with
    \/ \E h \in SubHandlers : set_sub_handler(h)

Spec == Init /\ [][Next]_vars

(* ---- the handler as the graph builder sees it, for every trigger ---- *)
WrapInit ==
    /\ \E c \in Constructions : Construct(c)
    /\ Quiet
    /\ last = Op("init", 0, NoEvent, FALSE)
    /\ sinceRecenter = FALSE /\ sinceZero = FALSE /\ sinceReset = FALSE
    /\ stopSeen = {} /\ lastRate = 0 /\ queries = 0
    /\ nticks = 0 /\ total = <<0, 0>> /\ leftover = <<0, 0>>
    /\ other = OtherHandler
    /\ DesktopInit

WrapNext ==
    \/ needs_wrapping
    \/ wrap_with
    \/ \E h \in SubHandlers : set_sub_handler(h)

WrapSpec == WrapInit /\ [][WrapNext]_vars

(* ---- constant-rate runs: one fresh loop, the rate never changes ---- *)

\* the handler after its first event, a non-zero rate on the mapped axis
RateInit ==
    /\ outputCode \in OutputCodes
    /\ target \in Targets
    /\ run = Bind(outputCode)
    /\ inputEvents = InputEventsOf(<<AxisEvent>>)
    /\ value \in RunRates(outputCode) \ {0}
    /\ running = FALSE
    /\ stop = TRUE
    /\ transform = TRUE
    /\ tasks = [t \in Tasks |->
                  IF t = 1 THEN [pc |-> "scheduled", rem |-> <<0, 0>>] ELSE FreeTask]
    /\ ready = <<1>>
    /\ Quiet
    /\ last = Op("notify", 0, [axis |-> MapAxis, recenter |-> FALSE, rate |-> value], TRUE)
    /\ sinceRecenter = FALSE /\ sinceZero = FALSE /\ sinceReset = FALSE
    /\ stopSeen = {} /\ lastRate = value /\ queries = 1
    /\ nticks = 0 /\ total = <<0, 0>> /\ leftover = <<0, 0>>
    /\ other = OtherHandler
    /\ DesktopInit

\* a pass of the loop, counted: the values it computed are added to the totals
RateRun(t) ==
    /\ nticks < MaxTicks
    /\ \/ RunStart(t)
       \/ RunTick(t)
    /\ nticks' = nticks + 1
    /\ LET tk == Tick(value, tasks[t].rem, outputCode)
       IN  total' = <<total[1] + tk.vals[1], total[2] + tk.vals[2]>>
    /\ UNCHANGED leftover

RateNext == \E t \in Tasks : RateRun(t)

RateSpec == RateInit /\ [][RateNext]_vars

(* ---- handlers for every output code, a bounded number of passes ---- *)

\* events of these runs: stop and go on the mapped axis, at a rate that moves
\* both wheel channels in every pass
ModeEvents ==
    [axis : {MapAxis}, recenter : BOOLEAN, rate : {0, Float(121, 1)}]

ModeInit ==
    /\ \E c \in Constructions :
          /\ c.combination = <<AxisEvent>>
          /\ c.target_uinput = "mouse"
          /\ Construct(c)
    /\ Quiet
    /\ last = Op("init", 0, NoEvent, FALSE)
    /\ sinceRecenter = FALSE /\ sinceZero = FALSE /\ sinceReset = FALSE
    /\ stopSeen = {} /\ lastRate = 0 /\ queries = 0
    /\ nticks = 0 /\ total = <<0, 0>> /\ leftover = <<0, 0>>
    /\ other = OtherHandler
    /\ DesktopInit

\* a step of a loop, counted
ModeRun(t) ==
    /\ nticks < MaxModeSteps
    /\ \/ RunStart(t)
       \/ RunExit(t)
       \/ RunTick(t)
    /\ nticks' = nticks + 1
    /\ UNCHANGED <<total, leftover>>

ModeNext ==
    \/ \E ev \in ModeEvents : notify(ev)
    \/ reset
    \/ \E t \in Tasks : ModeRun(t)

ModeSpec == ModeInit /\ [][ModeNext]_vars

(* ---- two handlers of one device: this one and another for OtherAxis ---- *)

\* what `last` keeps of an operation of the other handler
OtherOp(name, t, ev, ret) ==
    [Op(name, t, ev, ret) EXCEPT !.match = (ev.axis = OtherAxis)]

\* one pass of the other handler's loop: _run_normal on its own fields, its
\* writes go out under its own mapping's target
OtherTick(rem) ==
    LET tk == TickNormal(other.value, rem, other.outputCode)
    IN  [tk EXCEPT !.w.names = [i \in DOMAIN tk.w.names |-> other.target]]

\* the other handler after its asyncio.ensure_future(self._run())
OtherEnsureFuture(h) ==
    LET t == CHOOSE x \in Tasks :
                 h.tasks[x].pc = "free"
                 /\ \A y \in Tasks : h.tasks[y].pc = "free" => x <= y
    IN  [h EXCEPT !.tasks[t] = [pc |-> "scheduled", rem |-> <<0, 0>>],
                  !.ready = Append(h.ready, t)]

\* notify of the other handler
OtherNotify(ev) ==
    /\ other.running \/ \E t \in Tasks : other.tasks[t].pc = "free"
    /\ other' =
          IF ev.axis # OtherAxis THEN other
          ELSE IF ev.recenter THEN [other EXCEPT !.stop = TRUE]
          ELSE IF ev.rate = 0
          THEN [other EXCEPT !.transform = TRUE, !.value = ev.rate, !.stop = TRUE]
          ELSE IF other.running
          THEN [other EXCEPT !.transform = TRUE, !.value = ev.rate]
          ELSE OtherEnsureFuture(
                   [other EXCEPT !.transform = TRUE, !.value = ev.rate])
    /\ last' = OtherOp("other.notify", 0, ev, ev.axis = OtherAxis)
    /\ NoOutput
    /\ UNCHANGED <<desktop, handler, history, marks, counters>>

\* reset of the other handler
OtherReset ==
    /\ other' = [other EXCEPT !.stop = TRUE]
    /\ last' = OtherOp("other.reset", 0, NoEvent, FALSE)
    /\ NoOutput
    /\ UNCHANGED <<desktop, handler, history, marks, counters>>

\* task t of the other handler after a pass
OtherAfterTick(h, t, tk) ==
    /\ other' = [h EXCEPT !.tasks[t] = [pc |-> "sleeping", rem |-> tk.rem]]
    /\ passed' = tk.w.passed
    /\ uinputs' = tk.w.names
    /\ sunk' = tk.w.sunk
    /\ logged' = tk.w.logged
    /\ \E time_taken \in TimesTaken : slept' = SleepFor(time_taken)

OtherRunStart(t) ==
    /\ other.ready # <<>>
    /\ t = Head(other.ready)
    /\ \E tk \in {OtherTick(<<0, 0>>)} :
          OtherAfterTick([other EXCEPT !.ready = Tail(other.ready),
                                       !.running = TRUE, !.stop = FALSE], t, tk)
    /\ last' = OtherOp("other.start", t, NoEvent, FALSE)

OtherRunExit(t) ==
    /\ other.tasks[t].pc = "sleeping"
    /\ other.stop
    /\ other' = [other EXCEPT !.running = FALSE, !.tasks[t] = FreeTask]
    /\ NoOutput
    /\ last' = OtherOp("other.exit", t, NoEvent, FALSE)

OtherRunTick(t) ==
    /\ other.tasks[t].pc = "sleeping"
    /\ ~other.stop
    /\ \E tk \in {OtherTick(other.tasks[t].rem)} : OtherAfterTick(other, t, tk)
    /\ last' = OtherOp("other.tick", t, NoEvent, FALSE)

OtherRun(t) ==
    /\ \/ OtherRunStart(t)
       \/ OtherRunExit(t)
       \/ OtherRunTick(t)
    /\ UNCHANGED <<desktop, handler, history, marks, counters>>

\* events of the two axes: stop and go at one rate
PairEvents ==
    [axis : {MapAxis, OtherAxis}, recenter : BOOLEAN, rate : {0, Float(3, 2)}]

PairInit == Init /\ outputCode = PointerCode

PairNext ==
    \/ \E ev \in PairEvents : notify(ev)
    \/ reset
    \/ \E t \in Tasks : Run(t)
    \/ \E ev \in PairEvents : OtherNotify(ev)
    \/ OtherReset
    \/ \E t \in Tasks : OtherRun(t)

PairSpec == PairInit /\ [][PairNext]_vars

(* ---- the handler under a fair event loop ---- *)

\* events of the fair runs: stop and go at one rate
FairEvents ==
    [axis : {MapAxis, OtherAxis}, recenter : BOOLEAN,
     rate : {0, Float(3, 4)}]

FairInit == Init /\ outputCode = PointerCode

FairNext ==
    \/ \E ev \in FairEvents : notify(ev)
    \/ reset
    \/ \E t \in Tasks : Run(t)

\* the event loop runs every ready task and every sleep ends
FairSpec == FairInit /\ [][FairNext]_vars /\ \A t \in Tasks : WF_vars(Run(t))

(* ---- the handler over several runs of its loop, its target device known ---- *)
(* ---- to the multiplexer or not                                         ---- *)

\* constructor arguments of these runs
LifeConstructions ==
    [combination : {<<AxisEvent>>}, output_code : {PointerCode, REL_WHEEL},
     target_uinput : {"mouse", UnknownTarget}]

LifeInit ==
    /\ \E c \in LifeConstructions : Construct(c)
    /\ Quiet
    /\ last = Op("init", 0, NoEvent, FALSE)
    /\ sinceRecenter = FALSE /\ sinceZero = FALSE /\ sinceReset = FALSE
    /\ stopSeen = {} /\ lastRate = 0 /\ queries = 0
    /\ nticks = 0 /\ total = <<0, 0>> /\ leftover = <<0, 0>>
    /\ other = OtherHandler
    /\ DesktopInit

\* a step of a loop; the local remainders of a loop that returns are kept as it
\* left them
LifeRun(t) ==
    /\ \/ RunStart(t)
       \/ RunExit(t)
       \/ RunTick(t)
    /\ leftover' = IF tasks[t].pc = "sleeping" /\ stop THEN tasks[t].rem ELSE leftover
    /\ UNCHANGED <<nticks, total>>

LifeNext ==
    \/ \E ev \in FairEvents : notify(ev)
    \/ reset
    \/ \E t \in Tasks : LifeRun(t)

LifeSpec == LifeInit /\ [][LifeNext]_vars

(* ---- the constructor called with any combination ---- *)

\* input events of the combinations: the mapped axis, triggers with a non-zero
\* value, and a key with the value 0
AnyEvents == {AxisEvent} \cup TriggerEvents \cup {<<EV_KEY, KEY_A, 0>>}

\* combinations of them, no event twice
AnyCombinations ==
    {c \in UNION {[1..n -> AnyEvents] : n \in 1..MaxCombination} :
        \A i, j \in DOMAIN c : c[i] = c[j] => i = j}

\* `assert event.type == EV_ABS` fails for the first event with value 0
AssertFails(combination) ==
    /\ FindAxis(combination) # <<>>
    /\ FindAxis(combination)[1] # EV_ABS

\* AbsToRelHandler(combination, mapping): the handler, or the AssertionError
BuildInit ==
    /\ \E combination \in AnyCombinations :
          /\ inputEvents = InputEventsOf(combination)
          /\ last = [Op("init", 0, NoEvent, FALSE) EXCEPT
                        !.raised = IF AssertFails(combination)
                                   THEN "AssertionError" ELSE ""]
    /\ outputCode = PointerCode
    /\ target = "mouse"
    /\ run = Bind(outputCode)
    /\ HandlerInit
    /\ Quiet
    /\ sinceRecenter = FALSE /\ sinceZero = FALSE /\ sinceReset = FALSE
    /\ stopSeen = {} /\ lastRate = 0 /\ queries = 0
    /\ nticks = 0 /\ total = <<0, 0>> /\ leftover = <<0, 0>>
    /\ other = OtherHandler
    /\ DesktopInit

\* the constructor returned: there is a handler
Constructed == ~(last.op = "init" /\ last.raised = "AssertionError")

\* self._map_axis as __init__ left it: <<>> when it was never assigned
MapAxisOf(input_events) == FindAxis(EventCombination(input_events))

\* notify of the handler as built: reading self._map_axis raises
\* AttributeError when __init__ has not assigned it
BuildNotify(ev) ==
    /\ Constructed
    /\ IF MapAxisOf(inputEvents) = <<>>
       THEN Returns("notify", FALSE, {}, "AttributeError")
       ELSE MapAxisOf(inputEvents) = MapAxis /\ notify(ev)

BuildNext ==
    \/ \E ev \in FairEvents : BuildNotify(ev)
    \/ Constructed /\ reset
    \/ \E t \in Tasks : Constructed /\ Run(t)

BuildSpec == BuildInit /\ [][BuildNext]_vars

(* ---- the preset editor: recording triggers for the mappings of a preset ---- *)
RecordInit == Init /\ outputCode = PointerCode

RecordNext ==
    \/ create_mapping
    \/ \E i \in 1..MaxMappings : load_mapping(i)
    \/ start_key_recording
    \/ \E ev \in DeviceEvents : push_event(ev)
    \/ \E i \in 1..MaxMappings : i = active /\ set_text(Symbols[i])
    \/ \E c \in Published : publish(c)
    \/ \E combi \in Lookups : GetMapping(combi)

RecordSpec == RecordInit /\ [][RecordNext]_vars

(* ---- injection for a device, as test_start_injecting and ---- *)
(* ---- test_stop_injecting drive it                         ---- *)

\* push_events(fixtures.foo_device_2_keyboard, [InputEvent.key(5, 1),
\* InputEvent.key(5, 0)]): a press and the release of the mapped key
PressRelease ==
    <<InputEvent(EV_KEY, 5, 1, "foo_device_2_keyboard"),
      InputEvent(EV_KEY, 5, 0, "foo_device_2_keyboard")>>

\* the lists of events pushed in one call
Pushes == {PressRelease, <<PressRelease[1]>>, <<PressRelease[2]>>}

\* what preset3 makes of an event of the mapped key: the key "a" with the
\* value of the event; n is the place of the event among the arrivals
Inject(ev, n) ==
    [type |-> EV_KEY, code |-> KEY_A, value |-> ev.value, n |-> n]

\* start_injector_btn.clicked(): the daemon is asked to start the injector
start_injecting ==
    /\ injectorState = "STOPPED"
    /\ injectorState' = "STARTING"
    /\ UNCHANGED <<grabbed, pipe, arrived, written, notInjection>>

\* the injector has grabbed the device: it reads what arrives from now on
InjectorStarted ==
    /\ injectorState = "STARTING"
    /\ injectorState' = "RUNNING"
    /\ grabbed' = TRUE
    /\ pipe' = <<>>
    /\ UNCHANGED <<arrived, written, notInjection>>

\* push_events(fixture, events): the events arrive on the device, in the
\* order of the list
push_events(events) ==
    /\ Len(arrived) + Len(events) <= MaxArrivals
    /\ arrived' = arrived \o [k \in 1..Len(events) |->
                                [event |-> events[k], state |-> injectorState]]
    /\ pipe' = pipe \o [k \in 1..Len(events) |->
                          [event |-> events[k], n |-> Len(arrived) + k]]
    /\ UNCHANGED <<injectorState, grabbed, written, notInjection>>

\* mutant: the injector handles the newest event first
InjectNewestFirst ==
    /\ grabbed
    /\ pipe # <<>>
    /\ written' = Append(written, Inject(pipe[Len(pipe)].event, pipe[Len(pipe)].n))
    /\ pipe' = SubSeq(pipe, 1, Len(pipe) - 1)
    /\ UNCHANGED <<injectorState, grabbed, arrived, notInjection>>

\* the injector reads the oldest event of the device and writes its output
inject ==
    /\ grabbed
    /\ pipe # <<>>
    /\ written' = Append(written, Inject(Head(pipe).event, Head(pipe).n))
    /\ pipe' = Tail(pipe)
    /\ UNCHANGED <<injectorState, grabbed, arrived, notInjection>>

\* mutant: the state is reported, the injector goes on reading
StopInjectingReaderStays ==
    /\ injectorState = "RUNNING"
    /\ injectorState' = "STOPPED"
    /\ UNCHANGED <<grabbed, pipe, arrived, written, notInjection>>

\* controller.stop_injecting(): the injector ends and lets go of the device
stop_injecting ==
    /\ injectorState = "RUNNING"
    /\ injectorState' = "STOPPED"
    /\ grabbed' = FALSE
    /\ pipe' = <<>>
    /\ UNCHANGED <<arrived, written, notInjection>>

InjectInit == Init /\ outputCode = PointerCode

InjectNext ==
    \/ start_injecting
    \/ InjectorStarted
    \/ \E events \in Pushes : push_events(events)
    \/ inject
    \/ stop_injecting

InjectSpec == InjectInit /\ [][InjectNext]_vars

(* ---- debounce and debounce_manager, as TestDebounce drives them ---- *)

\* the call of m is pending
Pending(m) == timers[Track(m)].left >= 0 /\ timers[Track(m)].callee = m

\* a.foo(): the call is put off by the timeout, from now
foo(m) ==
    /\ calls[m] < MaxRuns
    /\ Burst(m) <= MaxBurst
    /\ timers' = [timers EXCEPT ![Track(m)] = [left |-> DebounceTime, callee |-> m]]
    /\ since' = [since EXCEPT ![m] = [Fresh EXCEPT !.invoked = Burst(m)]]
    /\ debounced' = "foo"
    /\ UNCHANGED <<calls, notDebounce>>

\* time.sleep: a unit of time passes
sleep ==
    /\ \E k \in DOMAIN timers : timers[k].left > 0
    /\ timers' = [k \in DOMAIN timers |->
                    IF timers[k].left > 0
                    THEN [timers[k] EXCEPT !.left = timers[k].left - 1]
                    ELSE timers[k]]
    /\ debounced' = "sleep"
    /\ UNCHANGED <<calls, since, notDebounce>>

\* the methods whose timeout is among those of ks
Callees(ks) == {m \in Methods : Track(m) \in ks /\ Pending(m)}

\* the counters after the methods of ms have run
Ran(ms, by) ==
    /\ calls' = [m \in Methods |-> IF m \in ms THEN calls[m] + 1 ELSE calls[m]]
    /\ since' = [m \in Methods |->
                    IF m \in ms
                    THEN [since[m] EXCEPT !.runs = since[m].runs + 1, !.by = by]
                    ELSE since[m]]

\* gtk_iteration(): the main loop runs the timeouts that are due
gtk_iteration ==
    LET due == {k \in DOMAIN timers : timers[k].left = 0}
    IN  /\ due # {}
        /\ Ran(Callees(due), "gtk_iteration")
        /\ timers' = [k \in DOMAIN timers |-> IF k \in due THEN NoTimer ELSE timers[k]]
        /\ debounced' = "gtk_iteration"
        /\ UNCHANGED notDebounce

\* mutant: the calls are run, their timeouts stay
RunAllNowTimersStay ==
    LET all == {k \in DOMAIN timers : timers[k].left >= 0}
    IN  /\ all # {}
        /\ Ran(Callees(all), "run_all_now")
        /\ debounced' = "run_all_now"
        /\ UNCHANGED <<timers, notDebounce>>

\* debounce_manager.run_all_now(): every pending call is run at once and its
\* timeout removed
run_all_now ==
    LET all == {k \in DOMAIN timers : timers[k].left >= 0}
    IN  /\ all # {}
        /\ Ran(Callees(all), "run_all_now")
        /\ timers' = [k \in DOMAIN timers |-> NoTimer]
        /\ debounced' = "run_all_now"
        /\ UNCHANGED notDebounce

\* the timeouts of ks are removed, their calls are not run
Cancel(ks) ==
    /\ timers' = [k \in DOMAIN timers |-> IF k \in ks THEN NoTimer ELSE timers[k]]
    /\ since' = [m \in Methods |->
                    IF m \in Callees(ks)
                    THEN [since[m] EXCEPT !.cancelled = TRUE]
                    ELSE since[m]]
    /\ UNCHANGED <<calls, notDebounce>>

\* debounce_manager.stop_all()
stop_all ==
    /\ \E k \in DOMAIN timers : timers[k].left >= 0
    /\ Cancel(DOMAIN timers)
    /\ debounced' = "stop_all"

\* debounce_manager.stop(a, a.foo)
stop_debounce(m) ==
    /\ Pending(m)
    /\ Cancel({Track(m)})
    /\ debounced' = "stop"

DebounceSpecInit == Init /\ outputCode = PointerCode

DebounceNext ==
    \/ \E m \in Methods : foo(m)
    \/ sleep
    \/ gtk_iteration
    \/ run_all_now
    \/ stop_all
    \/ \E m \in Methods : stop_debounce(m)

DebounceSpec == DebounceSpecInit /\ [][DebounceNext]_vars

(* ======================================================================= *)
(* Rounding-error bounds used by the numerical claims.  They are a-priori  *)
(* bounds of floating-point arithmetic, stated in twice the grid unit.     *)
(* ======================================================================= *)

\* spacing of the floats of magnitude up to x
Ulp(x) == Pow2(Max(0, BitLen(x) - Precision))

\* multiples of 2^g of magnitude up to x are floats: sums of them are exact
Exact(g, x) == BitLen(x) - g <= Precision

\* twice the rounding error of one tick's addition rate + remainder
AddErr(v) ==
    IF Exact(Expo(v), Abs(v) + Scale) THEN 0 ELSE Ulp(Abs(v) + Scale)

\* twice the accumulated rounding discrepancy of the positions of the two wheel
\* channels per tick, hi-res against 120 times low-res, for the weights
\* (1.0, 120.0): the product rate * 120.0 and the two additions
WheelErrLow(v) ==
    LET mulExact == BitLen(15 * Abs(Mant(v))) <= Precision
        mulErr == IF mulExact THEN 0 ELSE Ulp(120 * Abs(v))
        addErrH == IF mulExact /\ Exact(Expo(v) + 3, 120 * Abs(v) + Scale)
                   THEN 0 ELSE Ulp(120 * Abs(v) + mulErr + Scale)
    IN  mulErr + addErrH + 120 * AddErr(v)

\* the same for the weights (1 / 120, 1): the rounded weight 1 / 120, the
\* product rate * weight and the two additions
WheelErrHi(v) ==
    LET wErr == Ulp(Scale \div 120 + 1)
        scaled == (Abs(v) * wErr) \div Scale + 1
        mulErr == scaled + Ulp(Abs(v) \div 120 + scaled + 1)
        addErrL == Ulp(Abs(v) \div 120 + mulErr + Scale)
    IN  120 * (mulErr + addErrL) + AddErr(v)

WheelErr(v, code) ==
    IF code \in {REL_WHEEL, REL_HWHEEL} THEN WheelErrLow(v) ELSE WheelErrHi(v)

(* ======================================================================= *)
(* Claims                                                                  *)
(* ======================================================================= *)

\* the handler is idle: no emission loop is scheduled or executing
Idle == Live = {} /\ ~running

\* the last step delivered a matching non-recenter event
Delivered == last.op = "notify" /\ last.match /\ ~last.recenter

\* the non-zero triples one pass of the loop hands to _write, from the rate v
\* and the remainders rem
Emission(v, rem, code) ==
    LET codes == IF IsWheel(code) THEN WheelCodes(code) ELSE <<code>>
        vals == IF IsWheel(code)
                THEN [i \in 1..2 |->
                        Trunc(FAdd(FMul(v, WheelWeights(code)[i]), rem[i]))]
                ELSE <<Trunc(FAdd(v, rem[1]))>>
        IsMotion(e) == e[3] # 0
    IN  SelectSeq([i \in 1..Len(vals) |-> <<EV_REL, codes[i], vals[i]>>], IsMotion)

\* C1: at most one emission-loop task (scheduled or executing) exists for the
\* handler at any time.
C1_AtMostOneLoop == Cardinality(Live) <= 1

\* C2: after a recenter on the mapped axis, and until a non-zero deflection is
\* delivered, no loop of the handler writes output.
C2_NoWriteAfterRecenter == sinceRecenter => passed = <<>>

\* C3: a loop that is running when a zero-rate event is delivered eventually
\* exits, unless a non-zero event is delivered later.
C3_ZeroStopsLoop ==
    \A t \in Tasks :
        (Delivered /\ value = 0 /\ sinceZero /\ tasks[t].pc = "sleeping")
            ~> (~sinceZero \/ tasks[t].pc = "free")

\* C4: every triple handed to the output multiplexer has a non-zero value.
C4_NoZeroWrite == \A i \in DOMAIN passed : passed[i][3] # 0

\* C4 witness: a wheel tick whose low-res value truncated to 0 wrote only the
\* hi-res channel
C4_Witness ==
    /\ last.op \in {"start", "tick"}
    /\ IsWheel(outputCode)
    /\ Len(passed) = 1
    /\ passed[1][2] = WheelCodes(outputCode)[2]

\* C5 as stated: in pointer mode, at a constant rate r from a fresh loop, after
\* every number of ticks N the sum of the emitted values differs from r*N by
\* less than 1 and equals r*N truncated toward zero.
C5_SumIsTruncatedProduct ==
    ~IsWheel(outputCode) =>
        /\ Abs(Scale * total[1] - value * nticks) < Scale
        /\ total[1] = Trunc(value * nticks)

\* C5 amended: the sum differs from r*N by less than 1 plus the rounding error
\* of the N float additions (half a unit in the last place each, none when the
\* additions are exact); when they are exact the sum is r*N truncated toward
\* zero.
C5_DriftBounded ==
    ~IsWheel(outputCode) =>
        /\ 2 * Abs(Scale * total[1] - value * nticks)
              < 2 * Scale + nticks * AddErr(value)
        /\ AddErr(value) = 0 => total[1] = Trunc(value * nticks)

\* C5 witness: a negative inexact rate whose sum after the last tick is not the
\* truncated product, and an exact fractional rate that many ticks in
C5_Witness ==
    /\ ~IsWheel(outputCode)
    /\ nticks = MaxTicks
    /\ total[1] # 0
    /\ \/ value < 0 /\ AddErr(value) > 0 /\ total[1] # Trunc(value * nticks)
       \/ value < 0 /\ AddErr(value) = 0 /\ Fmod1(value) # 0

\* C6 as stated: in wheel mode at a constant rate, at every tick boundary the
\* hi-res total H and the low-res total L satisfy |H - 120*L| < 120.
C6_RatioStrict ==
    IsWheel(outputCode) => Abs(total[2] - 120 * total[1]) < 120

\* C6 amended: |H - 120*L| < 120 + d, d the accumulated rounding discrepancy
\* of the two channels (zero when every float operation of the run is exact).
C6_RatioBounded ==
    IsWheel(outputCode) =>
        LET d == nticks * WheelErr(value, outputCode)
            whole == d \div (2 * Scale)
            diff == Abs(total[2] - 120 * total[1])
        IN  \/ diff < 120 + whole
            \/ diff = 120 + whole /\ d % (2 * Scale) > 0

\* C6 witness: both weight pairs reach a full low-res tick; shown for a
\* negative rate whose hi-res total is exactly 120 ahead
C6_Witness ==
    /\ IsWheel(outputCode)
    /\ value < 0
    /\ total[1] # 0
    /\ Abs(total[2] - 120 * total[1]) = 120

\* C7: a write that overflows is logged and dropped; the loop stays live:
\* running is set, stop is clear as the tick found it, the remainder is
\* advanced and the task sleeps until its next tick, which nothing blocks.
C7_OverflowContained ==
    [][(\E i \in DOMAIN passed' : UInputOverflows(passed'[i][3])) =>
        /\ last'.op \in {"start", "tick"}
        /\ tasks'[last'.task].pc = "sleeping"
        /\ running' /\ ~stop'
        /\ last'.op = "tick" => stop' = stop /\ running' = running
        /\ logged' = SelectSeq(passed', LAMBDA e : UInputOverflows(e[3]))
        /\ sunk' = SelectSeq(passed', LAMBDA e : ~UInputOverflows(e[3]))
        /\ tasks'[last'.task].rem[1] =
              Fmod1(FAdd(IF IsWheel(outputCode)
                         THEN FMul(value, WheelWeights(outputCode)[1])
                         ELSE value,
                         IF last'.op = "start" THEN 0
                         ELSE tasks[last'.task].rem[1]))]_vars

\* C7 witness: a later tick of a wheel loop whose hi-res sample overflowed while
\* its low-res sample was delivered
C7_Witness ==
    /\ last.op = "tick"
    /\ logged # <<>>
    /\ sunk # <<>>
    /\ tasks[last.task].rem[1] # 0

\* C8: from idle a matching non-recenter event with a non-zero rate schedules
\* exactly one loop; a loop that starts sets running and clears stop; every
\* pass emits at the current target rate; a loop does not exit while stop is
\* clear.
C8_IdleToRunning ==
    [][/\ (Idle /\ Delivered' /\ value' # 0) =>
            /\ Cardinality(Live') = 1
            /\ \A t \in Live' : tasks'[t] = [pc |-> "scheduled", rem |-> <<0, 0>>]
            /\ ready' = <<CHOOSE t \in Live' : TRUE>>
       /\ last'.op = "start" =>
            /\ running' /\ ~stop'
            /\ tasks[last'.task].pc = "scheduled"
            /\ tasks'[last'.task].pc = "sleeping"
            /\ passed' = Emission(value, <<0, 0>>, outputCode)
       /\ last'.op = "tick" =>
            /\ ~stop
            /\ tasks'[last'.task].pc = "sleeping"
            /\ passed' = Emission(value, tasks[last'.task].rem, outputCode)
       /\ last'.op = "exit" => stop]_vars

\* C8 witness: the single loop started from idle is emitting
C8_Witness ==
    /\ last.op = "tick"
    /\ Cardinality(Live) = 1
    /\ running /\ ~stop
    /\ passed # <<>>
    /\ ~sinceRecenter /\ ~sinceZero /\ ~sinceReset

\* C9: notify with an event off the mapped axis changes nothing of the handler,
\* starts no loop and writes nothing, also when the event carries recenter.
C9_OtherAxisIgnored ==
    [][(last'.op = "notify" /\ ~last'.match) =>
            /\ UNCHANGED handler
            /\ passed' = <<>>
            /\ ~last'.ret]_vars

\* C9 witness: a recenter on another axis was delivered while a loop is live
\* and no stop is requested
C9_Witness ==
    /\ last.op = "notify" /\ ~last.match /\ last.recenter
    /\ Live # {}
    /\ running /\ ~stop

\* C10: after reset(), unless a non-zero deflection is delivered later, the
\* handler eventually is idle.
C10_ResetReachesIdle == sinceReset ~> (~sinceReset \/ Idle)

\* C11: a loop that was asleep when stop was requested stays asleep until its
\* next wake-up, and the step in which it runs again is its exit, which
\* writes nothing.
C11_StopWithinOneTick ==
    [][\A t \in stopSeen :
          /\ tasks[t].pc = "sleeping"
          /\ last'.task # t => tasks'[t] = tasks[t]
          /\ last'.task = t =>
                /\ last'.op = "exit"
                /\ tasks'[t].pc = "free"
                /\ passed' = <<>>]_vars

\* C12: a loop ends only in a wake-up that finds the stop flag set; a wake-up
\* that finds it set ends the loop and one that finds it clear does not; right
\* after the end the running flag is false.
C12_ExitIffStopSet ==
    [][\A t \in Tasks :
          /\ (tasks[t].pc # "free" /\ tasks'[t].pc = "free") =>
                /\ tasks[t].pc = "sleeping"
                /\ stop
                /\ last'.op = "exit" /\ last'.task = t
                /\ ~running'
          /\ (tasks[t].pc = "sleeping" /\ last'.task = t) =>
                IF stop
                THEN tasks'[t].pc = "free" /\ ~running' /\ passed' = <<>>
                ELSE tasks'[t].pc = "sleeping" /\ last'.op = "tick"]_vars

\* C12 witness: a loop found the flag set at its wake-up and ended
C12_Witness ==
    /\ last.op = "exit"
    /\ tasks[last.task].pc = "free"
    /\ ~running /\ stop

C14_HandlersIndependent ==
    [][/\ last'.op \in {"notify", "reset", "start", "tick", "exit"} =>
            other' = other
       /\ last'.op \in {"other.notify", "other.reset", "other.start",
                        "other.tick", "other.exit"} =>
            UNCHANGED handler
       /\ \A t \in Tasks :
            (other.tasks[t].pc = "sleeping" /\ ~other.stop
             /\ last'.op = "other.tick" /\ last'.task = t) =>
                /\ passed' = Emission(other.value, other.tasks[t].rem,
                                      other.outputCode)
                /\ other'.tasks[t].pc = "sleeping"
                /\ other'.running = other.running
       /\ \A t \in Tasks :
            (other.tasks[t].pc = "sleeping" /\ last'.task = t
             /\ last'.op \in {"other.tick", "other.exit"}) =>
                (last'.op = "other.exit" <=> other.stop)
       /\ last'.op = "tick" =>
            passed' = Emission(value, tasks[last'.task].rem, outputCode)]_vars

\* C14 witness: the other handler's loop emitted after this handler's loop was
\* stopped by a recenter and has ended
C14_Witness ==
    /\ last.op = "other.tick"
    /\ passed # <<>>
    /\ other.running /\ ~other.stop
    /\ sinceRecenter /\ stop
    /\ queries = 1
    /\ ~running /\ Live = {}

\* C15: notify and reset write nothing, run no loop and do not sleep; every
\* write is made by a pass of a loop; every pass ends in exactly one sleep, of
\* length zero when the pass overran its period; an exit does not sleep.
C15_WritesOnlyInTicks ==
    [][/\ last'.op \in {"notify", "reset"} =>
            /\ passed' = <<>>
            /\ slept' = NoSleep
            /\ \A t \in Tasks :
                  \/ tasks'[t] = tasks[t]
                  \/ tasks[t].pc = "free" /\ tasks'[t].pc = "scheduled"
       /\ passed' # <<>> => last'.op \in {"start", "tick"}
       /\ last'.op \in {"start", "tick"} =>
            /\ tasks'[last'.task].pc = "sleeping"
            /\ slept' \in {SleepFor(time_taken) : time_taken \in TimesTaken}
            /\ \A t \in Tasks \ {last'.task} : tasks'[t] = tasks[t]
       /\ last'.op = "exit" => slept' = NoSleep]_vars

\* C15 witness: a wheel pass that overran its period wrote both channels and
\* then slept once, for zero time
C15_Witness ==
    /\ last.op = "tick"
    /\ Len(passed) = 2
    /\ slept = 0
    /\ tasks[last.task].pc = "sleeping"

\* C16: the transformation is built, with one capability query, by the first
\* matching event without recenter and by no other step; once built it is
\* never discarded, so the handler makes at most one query in its lifetime.
C16_TransformBuiltOnce ==
    [][/\ queries' <= 1
       /\ transform' <=> queries' = 1
       /\ transform => transform'
       /\ Delivered' => transform'
       /\ queries' # queries =>
            /\ Delivered'
            /\ ~transform
            /\ queries' = queries + 1
       /\ (last'.op # "notify" \/ ~last'.match \/ last'.recenter) =>
            /\ transform' = transform
            /\ queries' = queries]_vars

\* C16 witness: a zero-rate event delivered to a running handler after a
\* recenter and a reset(): the one transformation built earlier is still used
C16_Witness ==
    /\ Delivered
    /\ value = 0
    /\ running
    /\ sinceRecenter /\ sinceReset
    /\ transform /\ queries = 1

\* C17: every output of a step is a triple (EV_REL, code, value) handed to the
\* output multiplexer under the mapping's target name, and the sink and the
\* log get nothing else; the code is the mapping's output code in pointer
\* mode and one of the two codes bound at construction in wheel mode.
C17_WritesThroughMultiplexer ==
    /\ Len(uinputs) = Len(passed)
    /\ \A i \in DOMAIN passed :
          /\ uinputs[i] = target
          /\ passed[i][1] = EV_REL
          /\ IF outputCode \in {REL_WHEEL, REL_HWHEEL, REL_WHEEL_HI_RES,
                                REL_HWHEEL_HI_RES}
             THEN passed[i][2] \in {run.codes[1], run.codes[2]}
             ELSE passed[i][2] = outputCode
    /\ \A i \in DOMAIN sunk : \E j \in DOMAIN passed : sunk[i] = passed[j]
    /\ \A i \in DOMAIN logged : \E j \in DOMAIN passed : logged[i] = passed[j]

\* C17 witness: a pointer pass and a wheel pass, each under its target name
C17_Witness ==
    /\ last.op \in {"start", "tick"}
    /\ \/ ~run.wheel /\ passed = <<<<EV_REL, outputCode, -1>>>>
          /\ uinputs = <<"mouse">>
       \/ run.wheel /\ Len(passed) = 2 /\ passed[1][2] # passed[2][2]
          /\ uinputs = <<"keyboard + mouse", "keyboard + mouse">>

\* C18: the bound run method is the wheel loop exactly for the four wheel
\* codes; its channel pair follows the orientation and its weights the
\* resolution of the output code; no step changes the binding, and every pass
\* of a loop emits as the binding says.
C18_ModeFixedAtConstruction ==
    [][/\ run' = run
       /\ outputCode' = outputCode
       /\ run.wheel <=> outputCode \in {REL_WHEEL, REL_HWHEEL, REL_WHEEL_HI_RES,
                                         REL_HWHEEL_HI_RES}
       /\ run.wheel =>
            /\ run.codes = IF outputCode \in {REL_WHEEL, REL_WHEEL_HI_RES}
                           THEN <<REL_WHEEL, REL_WHEEL_HI_RES>>
                           ELSE <<REL_HWHEEL, REL_HWHEEL_HI_RES>>
            /\ run.weights = IF outputCode \in {REL_WHEEL, REL_HWHEEL}
                             THEN <<Scale, 120 * Scale>>
                             ELSE <<Float(1, 120), Scale>>
       /\ last'.op \in {"start", "tick"} =>
            /\ \A i \in DOMAIN passed' :
                  passed'[i][2] \in IF run.wheel
                                    THEN {run.codes[1], run.codes[2]}
                                    ELSE {outputCode}
            /\ ~run.wheel => Len(passed') <= 1]_vars

\* C18 witness: a hi-res horizontal wheel handler, after events and a reset(),
\* still emits on the horizontal pair
C18_Witness ==
    /\ outputCode = REL_HWHEEL_HI_RES
    /\ last.op = "tick"
    /\ queries = 1
    /\ Len(passed) = 2
    /\ passed[1][2] = REL_HWHEEL /\ passed[2][2] = REL_HWHEEL_HI_RES

\* C19: needs_wrapping() returns true exactly for a trigger of more than one
\* input event; wrap_with() then returns the one entry that maps the whole
\* trigger to the axis-switch wrapper, and the empty mapping otherwise.
C19_WrapsLongTriggers ==
    LET trigger == inputEvents.list
    IN  /\ last.op = "needs_wrapping" => (last.ret <=> Len(trigger) > 1)
        /\ last.op = "wrap_with" =>
              IF Len(trigger) > 1
              THEN /\ Cardinality(last.wraps) = 1
                   /\ <<trigger, "axisswitch">> \in last.wraps
              ELSE last.wraps = {}

\* C19 witness: wrap_with() on a trigger in which the mapped axis is not the
\* first of several events
C19_Witness ==
    /\ last.op = "wrap_with"
    /\ Len(inputEvents.list) > 1
    /\ inputEvents.list[1] # AxisEvent
    /\ last.wraps # {}

\* C20: set_sub_handler fails with an AssertionError for every argument and in
\* every state of the handler, and changes nothing of the handler.
C20_SubHandlerRefused ==
    [][last'.op = "set_sub_handler" =>
            /\ last'.raised = "AssertionError"
            /\ UNCHANGED handler
            /\ passed' = <<>>]_vars

\* C20 witness: set_sub_handler was called while a loop is asleep between two
\* passes
C20_Witness ==
    /\ last.op = "set_sub_handler"
    /\ running /\ ~stop /\ transform
    /\ Sleeping # {}
    /\ value # 0

Count(s, d) == Cardinality({i \in DOMAIN s : s[i] = d})

\* the two sequences hold the same things equally often
SameMultiset(a, b) ==
    /\ Len(a) = Len(b)
    /\ \A d \in Range(a) \cup Range(b) : Count(a, d) = Count(b, d)

\* the trigger a list of pressed events stands for: (type, code, direction) of
\* each, in the order of the list
Trigger(combi) ==
    [k \in 1..Len(combi) |->
        [type |-> combi[k].type, code |-> combi[k].code,
         sign |-> IF combi[k].value > 0 THEN 1 ELSE -1]]

\* the lists of n different events
RawCombinations(n) ==
    {combi \in [1..n -> {ev_1, ev_2, ev_3, ev_4}] :
        \A i, j \in 1..n : combi[i] = combi[j] => i = j}

\* C21: looking up a mapping by any reordering of its trigger that keeps the
\* final descriptor in last place finds that mapping.
C21_PermutedLookupFinds ==
    \A i \in 1..Len(mappings) :
        LET stored == mappings[i].combination
        IN  \A combi \in RawCombinations(Len(stored)) :
                /\ stored # <<>>
                /\ Trigger(combi)[Len(combi)] = stored[Len(stored)]
                /\ SameMultiset(Trigger(combi), stored)
                => get_mapping(mappings, get_combination(combi)) = i

\* C21 witness: a mapping was found by a trigger of three descriptors that is
\* stored in another order
C21_Witness ==
    /\ answer.op = "get_mapping"
    /\ answer.found # 0
    /\ Len(answer.combination) = 3
    /\ answer.combination # mappings[answer.found].combination
    /\ mappings[answer.found].output_symbol # ""

\* C22: a trigger with the descriptors of a stored trigger but another final
\* descriptor does not find the mapping stored under it.
C22_OtherFinalNotFound ==
    \A i \in 1..Len(mappings) :
        LET stored == mappings[i].combination
        IN  \A combi \in RawCombinations(Len(stored)) :
                /\ stored # <<>>
                /\ Trigger(combi)[Len(combi)] # stored[Len(stored)]
                /\ SameMultiset(Trigger(combi), stored)
                => get_mapping(mappings, get_combination(combi)) # i

\* C22 witness: two mappings of the preset have the same descriptors and
\* another final one, each its own output, and a lookup found one of them
C22_Witness ==
    /\ Len(mappings) = 2
    /\ SameMultiset(mappings[1].combination, mappings[2].combination)
    /\ Len(mappings[1].combination) = 3
    /\ mappings[1].combination[3] # mappings[2].combination[3]
    /\ mappings[1].output_symbol # ""
    /\ mappings[2].output_symbol # ""
    /\ mappings[1].output_symbol # mappings[2].output_symbol
    /\ answer.op = "get_mapping"
    /\ answer.found = 2
    /\ SameMultiset(answer.combination, mappings[1].combination)

\* the trigger with the direction of its k-th descriptor turned round
Flip(c, k) == [c EXCEPT ![k].sign = -c[k].sign]

\* C23: a trigger that differs from a stored one in the direction of one
\* descriptor does not find the mapping stored under it, in whatever order
\* its descriptors are.
C23_DirectionsDistinct ==
    \A i \in 1..Len(mappings) :
        LET stored == mappings[i].combination
        IN  \A combi \in RawCombinations(Len(stored)) :
                (\E k \in 1..Len(stored) :
                    SameMultiset(Trigger(combi), Flip(stored, k)))
                => get_mapping(mappings, get_combination(combi)) # i

\* C23 witness: two mappings of the preset differ in the direction of one
\* descriptor only, each has its own output, and a lookup found the second
C23_Witness ==
    /\ Len(mappings) = 2
    /\ \E k \in 1..Len(mappings[1].combination) :
          mappings[2].combination = Flip(mappings[1].combination, k)
    /\ mappings[1].output_symbol # ""
    /\ mappings[2].output_symbol # ""
    /\ mappings[1].output_symbol # mappings[2].output_symbol
    /\ answer.op = "get_mapping"
    /\ answer.found = 2
    /\ answer.combination = mappings[2].combination

\* the two triggers are equivalent: the same descriptors equally often and the
\* same final descriptor
Equivalent(a, b) ==
    /\ Len(a) = Len(b)
    /\ a # <<>> => a[Len(a)] = b[Len(b)] /\ SameMultiset(a, b)

\* C24: no two mappings of the preset have equivalent triggers, and a recorded
\* combination that is equivalent to the trigger of another mapping changes
\* nothing: every mapping keeps its combination and its output.
C24_NoEquivalentTriggers ==
    [][LET before == mappings
           after == mappings'
           c == answer'.combination
       IN  /\ \A i, j \in 1..Len(after) :
                 i # j => ~Equivalent(after[i].combination, after[j].combination)
           /\ /\ answer'.op = "push_event"
              /\ c # <<>>
              /\ \E j \in 1..Len(before) :
                    j # active /\ Equivalent(c, before[j].combination)
              => after = before]_vars

\* C24 witness: the session recorded, as its third event, a combination that
\* is the trigger of an older mapping in another order; the new mapping has
\* the two events recorded before, the older one its output
C24_Witness ==
    /\ answer.op = "push_event"
    /\ Len(answer.combination) = 3
    /\ recording
    /\ active = 2
    /\ mappings[2].combination = SubSeq(answer.combination, 1, 2)
    /\ mappings[1].combination # answer.combination
    /\ Equivalent(mappings[1].combination, answer.combination)
    /\ mappings[1].output_symbol = "a"

\* C27: in a recording session every press of an event not recorded yet
\* publishes one combination, the previous one extended by that event, and
\* nothing else is published; a release that leaves an event held publishes
\* nothing and the session goes on; the session ends, with one
\* recording-finished signal, exactly when the last held event is released; a
\* combination published when no session is going on changes no mapping.
C27_RecordingSession ==
    [][LET grew == recording /\ Len(accumulator') = Len(accumulator) + 1
           released == recording /\ held' # held /\ held' \subseteq held
       IN  /\ grew => /\ SubSeq(accumulator', 1, Len(accumulator)) = accumulator
                      /\ answer'.op = "push_event"
                      /\ answer'.combination = Trigger(accumulator')
                      /\ recording'
           /\ recording /\ answer'.combination # <<>> => grew
           /\ released /\ held' # {} =>
                 /\ answer'.combination = <<>>
                 /\ recording'
                 /\ finished' = finished
           /\ released /\ held' = {} => ~recording' /\ finished' = 1
           /\ recording /\ ~recording' => released /\ held' = {}
           /\ finished' # finished => finished' = 1 \/ (~recording /\ recording')
           /\ finished' <= 1
           /\ answer'.op = "publish" => ~recording /\ mappings' = mappings]_vars

\* C27 witness: a session of three presses has ended, its signal was given
\* once, and a combination published afterwards left the mapping as recorded
C27_Witness ==
    /\ answer.op = "publish"
    /\ ~recording
    /\ finished = 1
    /\ active # 0
    /\ Len(mappings[active].combination) = 3
    /\ answer.combination # mappings[active].combination

(* ======================================================================= *)
(* Claims about injection as the tests start and stop it (InjectSpec)      *)
(* ======================================================================= *)

\* C25: the outputs are written in the order in which their inputs arrived,
\* each with the value of its input: the output of a press comes before the
\* output of the release that arrived after it.
C25_WrittenInArrivalOrder ==
    /\ \A k \in 1..Len(written) :
          /\ written[k].n \in 1..Len(arrived)
          /\ written[k].type = EV_KEY
          /\ written[k].code = KEY_A
          /\ written[k].value = arrived[written[k].n].event.value
    /\ \A k \in 1..Len(written) - 1 : written[k].n < written[k + 1].n

\* C25 witness: a press and, after it, its release arrived while the injector
\* was running, and both outputs are written
C25_Witness ==
    /\ Len(written) >= 2
    /\ written[1].value = 1 /\ written[1].n = 1
    /\ written[2].value = 0 /\ written[2].n = 2
    /\ arrived[1].state = "RUNNING"
    /\ arrived[2].state = "RUNNING"

\* C26: while the state is STOPPED nothing is written, and no output is ever
\* written for an event that arrived while the state was STOPPED.
C26_NoOutputWhenStopped ==
    [][/\ injectorState = "STOPPED" => written' = written
       /\ \A k \in 1..Len(written') :
             arrived'[written'[k].n].state # "STOPPED"]_vars

\* C26 witness: a press and its release were injected while the state was
\* RUNNING; the same events, pushed after the stop, are left unwritten
C26_Witness ==
    /\ injectorState = "STOPPED"
    /\ Len(arrived) = 4
    /\ arrived[1].state = "RUNNING" /\ arrived[2].state = "RUNNING"
    /\ arrived[3].state = "STOPPED" /\ arrived[4].state = "STOPPED"
    /\ arrived[3].event = arrived[1].event
    /\ arrived[4].event = arrived[2].event
    /\ Len(written) = 2

(* ======================================================================= *)
(* Claims about debounced methods (DebounceSpec)                           *)
(* ======================================================================= *)

\* C28: a debounced method does not run when it is called; it runs in the
\* main loop once its timeout has passed since its last call, once, however
\* often it was called in between; and a call of one method leaves the
\* pending call of a same-named method of another object as it is.
C28_RunsOncePerBurst ==
    [][/\ debounced' = "foo" =>
             /\ calls' = calls
             /\ \E m \in Methods :
                   /\ since'[m].invoked >= 1
                   /\ since'[m].runs = 0
                   /\ Pending(m)'
                   /\ timers'[Track(m)].left = DebounceTime
                   /\ \A o \in Methods \ {m} :
                         /\ Pending(o)' = Pending(o)
                         /\ timers'[Track(o)] = timers[Track(o)]
       /\ debounced' = "gtk_iteration" =>
             \A m \in Methods :
                IF Pending(m) /\ timers[Track(m)].left = 0
                THEN /\ calls'[m] = calls[m] + 1
                     /\ since[m].invoked >= 1
                     /\ ~Pending(m)'
                ELSE calls'[m] = calls[m]
       /\ debounced' = "sleep" => calls' = calls]_vars

\* C28 witness: both methods were called twice within the timeout, and the
\* main loop has run each of them once
C28_Witness ==
    /\ debounced = "gtk_iteration"
    /\ \A m \in Methods :
          /\ since[m].invoked = 2
          /\ since[m].by = "gtk_iteration"
          /\ calls[m] = 1 /\ since[m].runs = 1
    /\ \A k \in DOMAIN timers : timers[k] = NoTimer

\* C29: a call runs at most once: after it has run, by run_all_now() or in the
\* main loop, it does not run again unless the method is called again, and a
\* call cancelled by stop_all() or stop() does not run.
C29_AtMostOnce ==
    \A m \in Methods :
        /\ since[m].runs <= 1
        /\ since[m].cancelled => since[m].runs = 0
        /\ since[m].runs = 1 \/ since[m].cancelled => ~Pending(m)

\* C29 witness: run_all_now() ran a pending call; the other method was
\* called after that and the main loop has run it when its timeout had
\* passed, without running the first again
C29_Witness ==
    /\ debounced = "gtk_iteration"
    /\ \E m \in Methods :
          /\ since[m].by = "run_all_now"
          /\ since[m].runs = 1
          /\ calls[m] = 1
          /\ \E o \in Methods :
                o # m /\ since[o].by = "gtk_iteration" /\ calls[o] = 1

(* ======================================================================= *)
(* Claims about deflections that must not get lost (FairSpec)              *)
(* ======================================================================= *)

\* the last word of the events and of reset() is a non-zero rate
Deflected == value # 0 /\ ~sinceRecenter /\ ~sinceZero /\ ~sinceReset

\* C30: when the last matching event delivered has a non-zero rate, a loop of
\* the handler eventually makes a pass at that rate, unless a recenter, a
\* zero rate or reset() follows first.
C30_DeflectionNotDropped ==
    Deflected ~> (~Deflected \/ (last.op \in {"start", "tick"} /\ lastRate = value))

\* C31: the running flag is set only while an emission loop of the handler is
\* executing: once a loop has terminated, by a stop request or by a write
\* failure that is no overflow, the flag is clear.
C31_RunningOnlyWhileLive == running => Sleeping # {}

\* the target contribution of channel i to a tick, as the loop computes it: the
\* rate, in wheel mode times the weight of the channel
Contribution(i) ==
    IF run.wheel THEN FMul(value, run.weights[i])
    ELSE IF i = 1 THEN value ELSE 0

\* the channels a tick of the bound run method goes through
Channels == IF run.wheel THEN {1, 2} ELSE {1}

\* the remainders of a fresh loop at rate v after n ticks
RECURSIVE RemAfter(_, _)
RemAfter(v, n) ==
    IF n = 0 THEN <<0, 0>> ELSE Tick(v, RemAfter(v, n - 1), outputCode).rem

\* C32 as stated: on every tick of every channel the emitted value and the new
\* remainder sum exactly to the target contribution plus the old remainder; the
\* new remainder is strictly between -1 and 1 and is zero or has the sign of
\* that sum; the emitted value is the sum truncated toward zero.
C32_TickConserves ==
    [][\A t \in Tasks : \A i \in Channels :
          last'.task = t =>
             LET emitted == total'[i] - total[i]
                 sum == Contribution(i) + tasks[t].rem[i]
                 new == tasks'[t].rem[i]
             IN  /\ Scale * emitted + new = sum
                 /\ -Scale < new /\ new < Scale
                 /\ new = 0 \/ Sign(new) = Sign(sum)
                 /\ emitted = Trunc(sum)]_vars

\* C32 amended: the emitted value and the new remainder sum exactly to the
\* float sum of the target contribution and the old remainder, which is their
\* sum rounded to the nearest float (within half a unit in the last place of
\* it); the new remainder is strictly between -1 and 1 and is zero or has the
\* sign of the float sum; the emitted value is the float sum truncated toward
\* zero.
C32_TickConservesRounded ==
    [][\A t \in Tasks : \A i \in Channels :
          last'.task = t =>
             LET emitted == total'[i] - total[i]
                 sum == Contribution(i) + tasks[t].rem[i]
                 float_value == FAdd(Contribution(i), tasks[t].rem[i])
                 new == tasks'[t].rem[i]
             IN  /\ Scale * emitted + new = float_value
                 /\ 2 * Abs(float_value - sum) <= Ulp(Abs(sum))
                 /\ -Scale < new /\ new < Scale
                 /\ new = 0 \/ Sign(new) = Sign(float_value)
                 /\ emitted = Trunc(float_value)
                 /\ emitted <= 0 \/ float_value > 0
                 /\ Abs(Scale * emitted) <= Abs(float_value)]_vars

\* C32 witness: a tick at a negative rate whose float sum was rounded; it
\* emitted a negative value and left a negative remainder
C32_Witness ==
    /\ nticks > 1
    /\ value < 0
    /\ \E t \in Tasks :
          /\ tasks[t].pc = "sleeping"
          /\ LET old == RemAfter(value, nticks - 1)[1]
                 float_value == FAdd(Contribution(1), old)
             IN  /\ float_value # Contribution(1) + old
                 /\ Trunc(float_value) < 0
                 /\ tasks[t].rem[1] = Fmod1(float_value)
                 /\ tasks[t].rem[1] < 0

\* the triples of a tick with their values negated
Negated(events) ==
    [i \in DOMAIN events |-> <<events[i][1], events[i][2], -events[i][3]>>]

\* tick n of a fresh loop run at the constant rate v
TickOf(v, n) == Tick(v, RemAfter(v, n - 1), outputCode)

\* C33: emission is symmetric in sign: tick k of a fresh loop at the constant
\* rate r and tick k of a fresh loop at the rate -r compute values that are
\* the exact negation of each other, channel by channel, write or suppress the
\* same channels, and leave remainders that are the negation of each other.
C33_SignSymmetric ==
    \A t \in Tasks :
        (nticks > 0 /\ tasks[t].pc = "sleeping") =>
            LET mirror == TickOf(-value, nticks)
            IN  /\ passed = Negated(mirror.w.passed)
                /\ tasks[t].rem = <<-mirror.rem[1], -mirror.rem[2]>>
                /\ TickOf(value, nticks).vals = <<-mirror.vals[1], -mirror.vals[2]>>

\* C33 witness: a later tick of a loop at a negative fractional rate wrote a
\* negative value and kept a negative remainder
C33_Witness ==
    /\ nticks > 2
    /\ value < 0
    /\ passed # <<>>
    /\ passed[1][3] < 0
    /\ TickOf(-value, nticks).w.passed[1][3] = -passed[1][3]
    /\ \E t \in Tasks : tasks[t].pc = "sleeping" /\ tasks[t].rem[1] < 0

\* C34: notify returns True for every event on the mapped axis, whether it
\* carries recenter, yields a zero rate or yields a non-zero rate, and False
\* for every other event.
C34_HandledIffMapped == last.op = "notify" => (last.ret <=> last.match)

\* C34 witness: a recenter on the mapped axis, delivered to a handler with no
\* loop and no transformation, was reported as handled
C34_Witness ==
    /\ last.op = "notify"
    /\ last.match /\ last.recenter
    /\ last.ret
    /\ Live = {} /\ ~transform

\* C35: every newly started loop makes its first pass from remainder zero on
\* each channel: what it writes and the remainders it keeps are those computed
\* from the rate alone, whatever remainders the loop that ended before it left.
C35_FreshRemainder ==
    [][\A t \in Tasks :
          (last'.op = "start" /\ last'.task = t) =>
             LET first == Tick(value, <<0, 0>>, outputCode)
             IN  /\ tasks[t] = [pc |-> "scheduled", rem |-> <<0, 0>>]
                 /\ passed' = first.w.passed
                 /\ tasks'[t].pc = "sleeping" =>
                       /\ tasks'[t].rem = first.rem
                       /\ \A i \in Channels :
                             tasks'[t].rem[i] = Fmod1(Contribution(i))]_vars

\* C35 witness: a loop was stopped with a non-zero remainder, and the loop
\* started after it has made its first pass and holds another remainder
C35_Witness ==
    /\ last.op = "start"
    /\ leftover[1] # 0
    /\ tasks[last.task].pc = "sleeping"
    /\ tasks[last.task].rem[1] # 0
    /\ tasks[last.task].rem # leftover

\* C36: in wheel mode every tick goes through both channels, the
\* low-resolution channel first and the hi-res channel second; the value and
\* the new remainder of a channel come from the rate, the channel's weight and
\* the channel's own old remainder alone; a channel is written once when its
\* value is not zero and not at all when it is.
C36_ChannelsIndependent ==
    [][\A t \in Tasks :
          (run.wheel /\ last'.task = t) =>
             /\ run.codes[1] \in {REL_WHEEL, REL_HWHEEL}
             /\ run.codes[2] \in {REL_WHEEL_HI_RES, REL_HWHEEL_HI_RES}
             /\ \A i \in {1, 2} :
                   LET float_value == FAdd(FMul(value, run.weights[i]),
                                           tasks[t].rem[i])
                       hits == {k \in DOMAIN passed' :
                                   passed'[k][2] = run.codes[i]}
                   IN  /\ total'[i] - total[i] = Trunc(float_value)
                       /\ tasks'[t].rem[i] = Fmod1(float_value)
                       /\ Cardinality(hits) =
                             IF Trunc(float_value) = 0 THEN 0 ELSE 1
                       /\ \A k \in hits : passed'[k][3] = Trunc(float_value)
             /\ Len(passed') <= 2
             /\ Len(passed') = 2 =>
                   /\ passed'[1][2] = run.codes[1]
                   /\ passed'[2][2] = run.codes[2]]_vars

\* C36 witness: a wheel tick wrote the low-resolution channel and then the
\* hi-res channel, and the two channels hold different remainders
C36_Witness ==
    /\ run.wheel
    /\ nticks > 1
    /\ Len(passed) = 2
    /\ passed[1][2] = run.codes[1] /\ passed[2][2] = run.codes[2]
    /\ \E t \in Tasks :
          /\ tasks[t].pc = "sleeping"
          /\ tasks[t].rem[1] # 0
          /\ tasks[t].rem[2] # tasks[t].rem[1]

\* C37: a recenter event on the mapped axis sets the stop flag and changes
\* nothing else of the handler: the stored target rate keeps its value, the
\* running flag is as it was, no transformation is built, no capability query
\* is made, no loop is started or ended and nothing is written.
C37_RecenterOnlyStops ==
    [][(last'.op = "notify" /\ last'.match /\ last'.recenter) =>
          /\ stop'
          /\ value' = value
          /\ running' = running
          /\ transform' = transform
          /\ queries' = queries
          /\ tasks' = tasks
          /\ ready' = ready
          /\ UNCHANGED config
          /\ passed' = <<>>]_vars

\* C37 witness: a recenter was delivered while a loop was running at a
\* non-zero rate: the rate is still stored and the loop has not ended yet
C37_Witness ==
    /\ last.op = "notify" /\ last.match /\ last.recenter
    /\ value # 0
    /\ running /\ stop
    /\ Sleeping # {}

\* C38: reset() sets the stop flag and changes nothing else of the handler
\* (target rate, running flag, transformation, loops), writes nothing and
\* starts nothing; a handler on which reset() was just called is as a second
\* reset() would leave it.
C38_ResetOnlyStops ==
    /\ [][last'.op = "reset" =>
             /\ stop'
             /\ value' = value
             /\ running' = running
             /\ transform' = transform
             /\ queries' = queries
             /\ tasks' = tasks
             /\ ready' = ready
             /\ UNCHANGED config
             /\ passed' = <<>>
             /\ slept' = NoSleep]_vars
    /\ [](last.op = "reset" =>
             /\ stop
             /\ sinceReset
             /\ Sleeping \subseteq stopSeen
             /\ Quiet)

\* C38 witness: reset() was called on an idle handler that has been used: its
\* rate and its transformation are kept, no loop exists and nothing was written
C38_Witness ==
    /\ last.op = "reset"
    /\ Live = {} /\ ready = <<>> /\ ~running
    /\ value # 0 /\ transform
    /\ stop
    /\ passed = <<>>

\* C39: every constructed handler has a mapped axis, the (type, code) of the
\* first event of its combination whose value is 0, and that event is an
\* absolute-axis event.
C39_AxisDefined ==
    Constructed =>
        /\ MapAxisOf(inputEvents) # <<>>
        /\ MapAxisOf(inputEvents)[1] = EV_ABS

====
